---- MODULE Spec2Model ----
(***************************************************************************)
(* Model of cart-orchestrator: an Express service that proxies a third     *)
(* party e-commerce admin API (address book, cart).  The repository holds  *)
(* three near-duplicate versions of the service; the variable `variant`    *)
(* selects which one is running:                                           *)
(*   "server.js"  src/server.js                                            *)
(*   "part_000"   src/unnamed/part_000                                     *)
(*   "part_001"   src/unnamed/part_001                                     *)
(*                                                                         *)
(* Strings are sequences of characters (one-character strings, or a word   *)
(* token that no regular expression of the code splits).  The empty        *)
(* string, undefined and null of a text field are all the empty sequence   *)
(* where the code treats them alike (`x || ""`); an omitted payload field  *)
(* is a field missing from the payload's DOMAIN.                           *)
(***************************************************************************)
EXTENDS Integers, Sequences, FiniteSets, TLC

VARIABLES
    variant,     \* which version of the service is deployed
    book,        \* upstream address book of the user: PreferredAddress, Addresses
    nextId,      \* upstream: next AddressId to assign
    pc,          \* position of the request being served
    file,        \* import-file: the uploaded rows (raw)
    addresses,   \* import-file: parsed rows (addresses)
    unique,      \* import-file: deduplicated rows (unique)
    i,           \* import-file: loop index (1-based position in unique)
    abExisting,  \* import-file: the address book as it was when the run began
    existingSig, \* import-file: known signatures (existingSig)
    counts,      \* import-file: createdCount, updatedCount, skippedCount
    skipped,     \* import-file: skipped[]
    errors,      \* import-file: errors[]
    resp,        \* response sent for the request
    calls,       \* history: upstream calls of the current request, in order
    recLog,      \* history: per processed record, what happened to it
    runs,        \* history: number of requests started
    faults,      \* history: number of upstream anomalies injected so far
    rerun,       \* history: this import-file run repeats the previous run's file
    lastCreate,  \* history: the last createAddress invocation and its result
    mdIn,        \* mergeDuplicates: input list
    mdOut,       \* mergeDuplicates: output list
    req,         \* body of the request being served (validate-addresses, list, export)
    mergedList,  \* validate-addresses: const list = mergeDuplicates(distributionList)
    validated,   \* validate-addresses: validated[]
    existingSigToId, \* validate-addresses: the map from signature to identifier
    valLog,      \* history: per merged line, what validate-addresses did
    listed,      \* response of the last POST /addressbook/list
    exported,    \* response of the last GET /addressbook/export.csv
    keyIn,       \* sigNoBusiness: the two address records it is applied to
    keyOut,      \* sigNoBusiness: their two signatures
    cart,        \* upstream cart of the user: the items posted to it, in order
    results,     \* add-to-cart-distribution: results[]
    createdList, \* addressbook/import: created[]
    skippedDuplicates, \* addressbook/import: skippedDuplicates[]
    existingKeys,      \* addressbook/import: existingKeys
    inflight,    \* concurrent requests: per request, its position and locals
    issued       \* upstream: number of tokens the authentication has issued

vars == <<variant, book, nextId, pc, file, addresses, unique, i, abExisting, existingSig,
          counts, skipped, errors, resp, calls, recLog, runs, faults, rerun,
          lastCreate, mdIn, mdOut, req, mergedList, validated, existingSigToId, valLog,
          listed, exported, keyIn, keyOut, cart, results, createdList, skippedDuplicates,
          existingKeys, inflight, issued>>

validateVars == <<req, mergedList, validated, existingSigToId, valLog>>

bookVars == <<listed, exported>>

keyVars == <<keyIn, keyOut>>

otherVars == <<cart, results, createdList, skippedDuplicates, existingKeys, inflight, issued>>

(***************************************************************************)
(* Bounds of the model.                                                    *)
(***************************************************************************)
MaxRows == 2
MaxRuns == 2
MaxFaults == 1
MaxLines == 2
MaxRequests == 2

Variants == {"server.js", "part_000", "part_001"}

(***************************************************************************)
(* Values shared by the three versions.                                    *)
(***************************************************************************)
Null == [null |-> TRUE]

EmptyStr == <<>>

STR_Distribution == <<"Distribution">>

STR_Client == <<"Client">>

STR_NA == <<"N", "A">>

STR_FR == <<"F", "R">>

\* a || b for strings: the first operand unless it is falsy (empty)
Or(a, b) == IF a # EmptyStr THEN a ELSE b

Get(obj, k) == IF k \in DOMAIN obj THEN obj[k] ELSE EmptyStr

\* template?.Field : undefined (falsy) when there is no template
TGet(template, k) == IF template = Null THEN EmptyStr ELSE Get(template, k)

(***************************************************************************)
(* Characters and strings.                                                 *)
(***************************************************************************)
RightQuote == "rq"

IsWs(c) == c \in {" ", "\t"}

IsPunct(c) == c \in {".", ",", ";"}

toLowerChar(c) ==
    CASE c = "R" -> "r"
      [] c = "P" -> "p"
      [] c = "A" -> "a"
      [] c = "F" -> "f"
      [] c = "B" -> "b"
      [] c = "E" -> "e"
      [] c = "X" -> "x"
      [] c = "L" -> "l"
      [] c = "Y" -> "y"
      [] c = "N" -> "n"
      [] c = "Distribution" -> "distribution"
      [] c = "Client" -> "client"
      [] c = "Acme" -> "acme"
      [] OTHER -> c

toUpperChar(c) ==
    CASE c = "r" -> "R"
      [] c = "p" -> "P"
      [] c = "a" -> "A"
      [] c = "f" -> "F"
      [] c = "b" -> "B"
      [] c = "e" -> "E"
      [] c = "x" -> "X"
      [] c = "l" -> "L"
      [] c = "y" -> "Y"
      [] c = "n" -> "N"
      [] OTHER -> c

toLowerCase(s) == [k \in 1..Len(s) |-> toLowerChar(s[k])]

toUpperCase(s) == [k \in 1..Len(s) |-> toUpperChar(s[k])]

RECURSIVE trimStart(_)
trimStart(s) ==
    IF s # <<>> /\ IsWs(Head(s)) THEN trimStart(Tail(s)) ELSE s

RECURSIVE trimEnd(_)
trimEnd(s) ==
    IF s # <<>> /\ IsWs(s[Len(s)]) THEN trimEnd(SubSeq(s, 1, Len(s) - 1)) ELSE s

trim(s) == trimEnd(trimStart(s))

\* s.replace(/\s+/g, " "): every maximal run of whitespace becomes one space
RECURSIVE collapseWs(_)
collapseWs(s) ==
    IF s = <<>> THEN <<>>
    ELSE IF IsWs(Head(s))
         THEN <<" ">> \o collapseWs(trimStart(Tail(s)))
         ELSE <<Head(s)>> \o collapseWs(Tail(s))

\* s.replace(/[’']/g, "'")
replaceApos(s) == [k \in 1..Len(s) |-> IF s[k] = RightQuote THEN "'" ELSE s[k]]

RECURSIVE dropPunct(_)
dropPunct(s) ==
    IF s # <<>> /\ IsPunct(Head(s)) THEN dropPunct(Tail(s)) ELSE s

\* s.replace(/[.,;]+/g, " "): every maximal run of . , ; becomes one space
RECURSIVE replacePunct(_)
replacePunct(s) ==
    IF s = <<>> THEN <<>>
    ELSE IF IsPunct(Head(s))
         THEN <<" ">> \o replacePunct(dropPunct(Tail(s)))
         ELSE <<Head(s)>> \o replacePunct(Tail(s))

normPart000(s) == collapseWs(toLowerCase(trim(s)))

normPart001(s) == trim(replaceApos(collapseWs(toLowerCase(trim(s)))))

normServer(s) ==
    trim(collapseWs(replacePunct(replaceApos(collapseWs(toLowerCase(trim(s)))))))

\* a variant of norm that keeps the letter case
normKeepCase(s) == trim(collapseWs(trim(s)))

norm(s) ==
    CASE variant = "part_000" -> normPart000(s)
      [] variant = "part_001" -> normPart001(s)
      [] OTHER -> normServer(s)

\* `${a}|${b}|${c}|${d}`
join4(a, b, c, d) == a \o <<"|">> \o b \o <<"|">> \o c \o <<"|">> \o d

join3(a, b, c) == a \o <<"|">> \o b \o <<"|">> \o c

\* signature without Business (part_000, part_001)
sigNoBusiness(a) ==
    join4(norm(Get(a, "Address1")), norm(Get(a, "Postal")), norm(Get(a, "City")),
          norm(Get(a, "Country")))

\* the key server.js uses for addresses: Address1|Postal|City|Business
sigWithBusiness(a) ==
    join4(norm(Get(a, "Address1")), norm(Get(a, "Postal")), norm(Get(a, "City")),
          norm(Get(a, "Business")))

(***************************************************************************)
(* Tabular row extractor.  A raw row maps header names to cell texts.      *)
(***************************************************************************)
\* String(k).toLowerCase().trim() on the header names the model uses
headerLower(h) ==
    CASE h = "AddressId" -> "addressid"
      [] h = "Business" -> "business"
      [] h = "Address1" -> "address1"
      [] h = "ADDRESS1" -> "address1"
      [] h = "Adresse" -> "adresse"
      [] h = "Address" -> "address"
      [] h = "City" -> "city"
      [] h = "Ville" -> "ville"
      [] h = "Postal" -> "postal"
      [] h = "Zip" -> "zip"
      [] h = "Country" -> "country"
      [] h = "FirstName" -> "firstname"
      [] h = "Phone" -> "phone"
      [] OTHER -> h

\* pick(obj, keys): value of the first key (headers compared lower-cased)
\* whose cell is not blank; "" when there is none
RECURSIVE pick(_, _)
pick(obj, keys) ==
    IF keys = <<>> THEN EmptyStr
    ELSE LET hs == {h \in DOMAIN obj : headerLower(h) = headerLower(Head(keys))}
         IN  IF hs # {} /\ trim(obj[CHOOSE h \in hs : TRUE]) # EmptyStr
             THEN obj[CHOOSE h \in hs : TRUE]
             ELSE pick(obj, Tail(keys))

\* String(pick(r, keys) || "").trim()
pickTrim(r, keys) == trim(pick(r, keys))

Address1Aliases ==
    IF variant = "server.js"
    THEN <<"address1", "adresse", "direccion", "dirección">>
    ELSE <<"address1", "adresse", "direccion", "dirección", "address">>

PostalAliases ==
    IF variant = "server.js"
    THEN <<"postal", "cp", "codepostal", "codigopostal">>
    ELSE <<"postal", "cp", "codepostal", "codigopostal", "zip">>

\* normalizeImportedAddress (server.js, part_001): Null when a required
\* field is empty
normalizeImportedAddress(r) ==
    LET addr == [
            AddressId |-> pickTrim(r, <<"addressid", "AddressId", "id", "Id">>),
            Business |-> pickTrim(r, <<"business", "société", "societe", "company">>),
            FirstName |-> pickTrim(r, <<"firstname", "prénom", "prenom", "nombre">>),
            LastName |-> pickTrim(r, <<"lastname", "nom", "apellido">>),
            Title |-> pickTrim(r, <<"title", "titre", "cargo">>),
            Address1 |-> pickTrim(r, Address1Aliases),
            Address2 |-> pickTrim(r, <<"address2">>),
            Address3 |-> pickTrim(r, <<"address3">>),
            City |-> pickTrim(r, <<"city", "ville", "ciudad">>),
            StateProvince |->
                Or(pickTrim(r, <<"stateprovince", "state", "province", "région", "region">>),
                   STR_NA),
            Postal |-> pickTrim(r, PostalAliases),
            Country |-> Or(pickTrim(r, <<"country", "pays", "país", "pais">>), STR_FR),
            Phone |-> pickTrim(r, <<"phone", "téléphone", "telephone", "telefono">>),
            Email |-> pickTrim(r, <<"email", "mail">>)]
        required(a) ==
            IF a.Address1 = EmptyStr \/ a.City = EmptyStr
               \/ a.Postal = EmptyStr \/ a.Country = EmptyStr
            THEN Null
            ELSE [a EXCEPT !.Business = Or(a.Business, STR_Distribution)]
    IN  required(addr)

\* row.A || row.B || ... : the first property that is truthy, else ""
RECURSIVE firstTruthy(_, _)
firstTruthy(row, hs) ==
    IF hs = <<>> THEN EmptyStr
    ELSE IF Get(row, Head(hs)) # EmptyStr THEN row[Head(hs)]
         ELSE firstTruthy(row, Tail(hs))

\* normalizeRowToAddress (part_000): property names are matched exactly
normalizeRowToAddress(row) ==
    [AddressId |-> trim(firstTruthy(row, <<"AddressId", "AddressID", "addressId", "addressID">>)),
     Business |-> Or(trim(firstTruthy(row, <<"Business", "business">>)), STR_Distribution),
     FirstName |-> Or(trim(firstTruthy(row, <<"FirstName", "firstname">>)), STR_Client),
     LastName |-> Or(trim(firstTruthy(row, <<"LastName", "lastname">>)), STR_Distribution),
     Title |-> trim(firstTruthy(row, <<"Title", "title">>)),
     Address1 |-> trim(firstTruthy(row, <<"Address1", "address1", "Address", "address">>)),
     Address2 |-> trim(firstTruthy(row, <<"Address2", "address2">>)),
     Address3 |-> trim(firstTruthy(row, <<"Address3", "address3">>)),
     City |-> trim(firstTruthy(row, <<"City", "city">>)),
     StateProvince |->
         Or(trim(Or(firstTruthy(row, <<"StateProvince", "state", "province">>), STR_NA)),
            STR_NA),
     Postal |-> trim(firstTruthy(row, <<"Postal", "zip", "postal">>)),
     Country |->
         toUpperCase(trim(Or(firstTruthy(row, <<"Country", "country">>), STR_FR))),
     Phone |-> trim(firstTruthy(row, <<"Phone", "phone">>)),
     Email |-> trim(firstTruthy(row, <<"Email", "email">>))]

\* part_000 parseCsvBuffer: cells are trimmed when the line is split, and a
\* row is kept only with Address1, City, Postal and Country
parseRowPart000(row) ==
    LET cells == [h \in DOMAIN row |-> trim(row[h])]
        required(a) ==
            IF a.Address1 # EmptyStr /\ a.City # EmptyStr
               /\ a.Postal # EmptyStr /\ a.Country # EmptyStr
            THEN a
            ELSE Null
    IN  required(normalizeRowToAddress(cells))

\* a variant of parseRow that emits every row, complete or not
parseRowLax(row) ==
    [AddressId |-> EmptyStr, Business |-> STR_Distribution, FirstName |-> EmptyStr,
     LastName |-> EmptyStr, Title |-> EmptyStr, Address1 |-> trim(Get(row, "Address1")),
     Address2 |-> EmptyStr, Address3 |-> EmptyStr, City |-> trim(Get(row, "City")),
     StateProvince |-> STR_NA, Postal |-> trim(Get(row, "Postal")),
     Country |-> Or(trim(Get(row, "Country")), STR_FR), Phone |-> EmptyStr,
     Email |-> EmptyStr]

parseRow(row) ==
    IF variant = "part_000" THEN parseRowPart000(row)
    ELSE normalizeImportedAddress(row)

\* parseCsvBuffer / parseXlsxBuffer: the rows that normalise, in file order
RECURSIVE parseCsvBuffer(_)
parseCsvBuffer(rows) ==
    IF rows = <<>> THEN <<>>
    ELSE LET kept(a) == IF a = Null THEN <<>> ELSE <<a>>
         IN  kept(parseRow(Head(rows))) \o parseCsvBuffer(Tail(rows))

(***************************************************************************)
(* Upstream platform (external).  A call either answers, or fails with an  *)
(* HTTP error status, or times out; the outcome is chosen by the           *)
(* environment.  A world w holds the upstream address book, the next       *)
(* identifier, and the history of calls.                                   *)
(***************************************************************************)
Fields ==
    {"AddressId", "Business", "FirstName", "LastName", "Title", "Address1",
     "Address2", "Address3", "City", "StateProvince", "Postal", "Country",
     "Phone", "Email"}

\* fields the payloads always carry (Address1: addr.Address1, ...)
ExplicitFields == {"Address1", "City", "Postal"}

NoStatus == 0

HttpError(status) ==
    [response |-> [status |-> status, Message |-> "UpstreamMessage"],
     message |-> "Request failed"]

TimeoutError == [response |-> Null, message |-> "timeout of 30000ms exceeded"]

\* an upstream answer with an error status (here 503), or no answer at all
ErrorOf(o) == IF o = "timeout" THEN TimeoutError ELSE HttpError(503)

IsFault(o) == o # "ok"

Ok(w, v) == [w |-> w, threw |-> FALSE, err |-> Null, value |-> v]

Throw(w, e) == [w |-> w, threw |-> TRUE, err |-> e, value |-> Null]

Log(w, call, o) ==
    [w EXCEPT !.calls = Append(@, call @@ [outcome |-> o]),
              !.faults = @ + (IF IsFault(o) THEN 1 ELSE 0)]

idStr(n) == <<ToString(n)>>

\* [PreferredAddress, ...Addresses].filter(Boolean)
allOf(ab) ==
    (IF ab.PreferredAddress = Null THEN <<>> ELSE <<ab.PreferredAddress>>)
        \o ab.Addresses

\* GET /api/site/{sd}/Addressbook/{userId}
getAddressBook(w, o) ==
    IF o = "ok"
    THEN Ok(Log(w, [op |-> "GET", ok |-> TRUE], o), w.book)
    ELSE Throw(Log(w, [op |-> "GET", ok |-> FALSE], o), ErrorOf(o))

stored(payload, id) ==
    [k \in Fields |-> IF k = "AddressId" THEN id ELSE Get(payload, k)]

\* POST /api/site/{sd}/Addressbook/{userId}/ : the platform assigns the
\* identifier and does not return it; "unlisted" is a 2xx answer after
\* which the entry is not found in the address book
postAddress(w, payload, o) ==
    LET call == [op |-> "POST", ok |-> o \in {"ok", "unlisted"}, payload |-> payload]
        answer(w1) ==
            CASE o = "ok" ->
                   Ok([w1 EXCEPT !.book.Addresses =
                                     Append(@, stored(payload, idStr(w.nextId))),
                                 !.nextId = @ + 1], TRUE)
              [] o = "unlisted" -> Ok(w1, TRUE)
              [] OTHER -> Throw(w1, ErrorOf(o))
    IN  answer(Log(w, call, o))

merged(old, payload) ==
    [k \in Fields |-> IF k # "AddressId" /\ k \in DOMAIN payload THEN payload[k] ELSE old[k]]

knownIds(ab) == {allOf(ab)[k].AddressId : k \in 1..Len(allOf(ab))}

\* a variant of putAddress that sends the PUT a second time when the first
\* attempt fails
putAddressRetried(w, payload, id, o) ==
    LET call(ok) == [op |-> "PUT", ok |-> ok, payload |-> payload, addressId |-> id]
        upd(a) == IF a # Null /\ a.AddressId = id THEN merged(a, payload) ELSE a
        answer(w1) ==
            IF id \notin knownIds(w.book)
            THEN Throw(w1, HttpError(404))
            ELSE Ok([w1 EXCEPT
                        !.book.PreferredAddress = upd(@),
                        !.book.Addresses = [k \in 1..Len(@) |-> upd(@[k])]], TRUE)
        again(w1) == answer(Log(w1, call(id \in knownIds(w.book)), "ok"))
    IN  IF o = "ok" THEN again(w) ELSE again(Log(w, call(FALSE), o))

\* PUT /api/site/{sd}/Addressbook/{userId}/?addressId=... : fields of the
\* payload replace those of the entry; an unknown identifier is a 404
putAddress(w, payload, id, o) ==
    LET call == [op |-> "PUT", ok |-> (o = "ok" /\ id \in knownIds(w.book)),
                 payload |-> payload, addressId |-> id]
        upd(a) == IF a # Null /\ a.AddressId = id THEN merged(a, payload) ELSE a
        answer(w1) ==
            IF o # "ok" THEN Throw(w1, ErrorOf(o))
            ELSE IF id \notin knownIds(w.book)
            THEN Throw(w1, HttpError(404))
            ELSE Ok([w1 EXCEPT
                        !.book.PreferredAddress = upd(@),
                        !.book.Addresses = [k \in 1..Len(@) |-> upd(@[k])]], TRUE)
    IN  answer(Log(w, call, o))

(***************************************************************************)
(* createAddress and upsertAddress.                                        *)
(***************************************************************************)
restrict(full) ==
    [k \in {f \in DOMAIN full : f \in ExplicitFields \/ full[f] # EmptyStr} |-> full[k]]

\* the payload createAddress builds from addr and template
createPayload(addr, template) ==
    LET dflt(k, d) == Or(Get(addr, k), Or(TGet(template, k), d))
        strict == variant = "server.js"
    IN  restrict([
            Business |-> dflt("Business", STR_Distribution),
            FirstName |-> dflt("FirstName", IF strict THEN EmptyStr ELSE STR_Client),
            LastName |-> dflt("LastName", IF strict THEN EmptyStr ELSE STR_Distribution),
            Title |-> dflt("Title", EmptyStr),
            Address1 |-> Get(addr, "Address1"),
            Address2 |-> Get(addr, "Address2"),
            Address3 |-> Get(addr, "Address3"),
            City |-> Get(addr, "City"),
            StateProvince |-> dflt("StateProvince", IF strict THEN EmptyStr ELSE STR_NA),
            Postal |-> Get(addr, "Postal"),
            Country |-> toUpperCase(dflt("Country", STR_FR)),
            Phone |-> dflt("Phone", EmptyStr),
            Email |-> dflt("Email", EmptyStr)])

\* the payload upsertAddress builds from addr and the preferred address
upsertPayload(addr, preferred) ==
    LET dflt(k, d) == Or(Get(addr, k), Or(TGet(preferred, k), d))
    IN  restrict([
            Business |-> dflt("Business", STR_Distribution),
            FirstName |-> dflt("FirstName", STR_Client),
            LastName |-> dflt("LastName", STR_Distribution),
            Title |-> dflt("Title", EmptyStr),
            Address1 |-> Get(addr, "Address1"),
            Address2 |-> Get(addr, "Address2"),
            Address3 |-> Get(addr, "Address3"),
            City |-> Get(addr, "City"),
            StateProvince |-> dflt("StateProvince", STR_NA),
            Postal |-> Get(addr, "Postal"),
            Country |-> toUpperCase(dflt("Country", STR_FR)),
            Phone |-> dflt("Phone", EmptyStr),
            Email |-> dflt("Email", EmptyStr)])

\* the key createAddress matches the re-fetched entries on
matchKey(a) ==
    IF variant = "server.js"
    THEN sigWithBusiness([Address1 |-> Get(a, "Address1"), Postal |-> Get(a, "Postal"),
                          City |-> Get(a, "City"), Business |-> Get(a, "Business")])
    ELSE sigNoBusiness([Address1 |-> Get(a, "Address1"), Postal |-> Get(a, "Postal"),
                        City |-> Get(a, "City"), Country |-> Get(a, "Country")])

\* all.find(a => key(a) === key)?.AddressId || null
findId(all, key) ==
    LET first(hits) ==
            IF hits = {} THEN EmptyStr
            ELSE all[CHOOSE k \in hits : \A m \in hits : k <= m].AddressId
    IN  first({k \in 1..Len(all) : matchKey(all[k]) = key})

\* createAddress(client, siteDomain, userId, addr, template): POST, then
\* re-fetch and match; oPost and oGet are the outcomes of the two calls
createAddress(w, addr, template, oPost, oGet) ==
    LET note(x, payload, posted, refetched, all, result) ==
            [x EXCEPT !.lastCreate =
                [payload |-> payload, posted |-> posted, refetched |-> refetched,
                 all |-> all, result |-> result]]
        \* return all.find(...)?.AddressId || null
        found(payload, g, all, id) == Ok(note(g.w, payload, TRUE, TRUE, all, id), id)
        match(payload, g, all) == found(payload, g, all, findId(all, matchKey(payload)))
        \* const ab = await getAddressBook(...)
        refetch(payload, g) ==
            IF g.threw THEN Throw(note(g.w, payload, TRUE, FALSE, <<>>, EmptyStr), g.err)
            ELSE match(payload, g, allOf(g.value))
        \* await client.post(...)
        post(payload, p) ==
            IF p.threw THEN Throw(note(p.w, payload, FALSE, FALSE, <<>>, EmptyStr), p.err)
            ELSE refetch(payload, getAddressBook(p.w, oGet))
        send(payload) == post(payload, postAddress(w, payload, oPost))
    IN  send(createPayload(addr, template))

\* upsertAddress(client, siteDomain, userId, addr): fetch the preferred
\* address as template, then PUT when addr has an AddressId, else create
upsertAddress(w, addr, oGet, oWrite, oRefetch) ==
    LET \* return { mode: "updated", addressId: addr.AddressId }
        updated(u) ==
            IF u.threw THEN u
            ELSE Ok(u.w, [mode |-> "updated", addressId |-> addr.AddressId])
        \* return { mode: "created", addressId: createdId }
        created(c) ==
            IF c.threw THEN c
            ELSE Ok(c.w, [mode |-> "created", addressId |-> c.value])
        write(g, preferred, payload) ==
            IF addr.AddressId # EmptyStr
            THEN updated(putAddress(g.w, payload, addr.AddressId, oWrite))
            ELSE created(createAddress(g.w, payload, preferred, oWrite, oRefetch))
        build(g, preferred) == write(g, preferred, upsertPayload(addr, preferred))
        \* const ab = await getAddressBook(...); const preferred = ab?.PreferredAddress
        fetched(g) == IF g.threw THEN g ELSE build(g, g.value.PreferredAddress)
    IN  fetched(getAddressBook(w, oGet))

(***************************************************************************)
(* POST /addressbook/import-file                                           *)
(***************************************************************************)
\* the key of the pre-pass that removes duplicates inside the file
importKey(a) ==
    IF a.AddressId # EmptyStr THEN <<"id:">> \o a.AddressId
    ELSE IF variant = "server.js" THEN <<"k:">> \o sigWithBusiness(a)
    ELSE <<"k:">> \o sigNoBusiness(a)

\* for (const a of addresses) { if (seen.has(key)) continue; ... unique.push(a) }
RECURSIVE dedupe(_, _)
dedupe(list, seen) ==
    IF list = <<>> THEN <<>>
    ELSE IF importKey(Head(list)) \in seen THEN dedupe(Tail(list), seen)
         ELSE <<Head(list)>> \o dedupe(Tail(list), seen \cup {importKey(Head(list))})

\* new Set(existingAll.map(sigNoBusiness)); server.js builds no such set
signaturesOf(ab) ==
    IF variant = "server.js" THEN {}
    ELSE {sigNoBusiness(allOf(ab)[k]) : k \in 1..Len(allOf(ab))}

\* a variant of skipsRecord that forgets the test on AddressId
skipsRecordAnyId(addr, sigs) ==
    /\ variant # "server.js"
    /\ sigNoBusiness(addr) \in sigs

\* if (!addr.AddressId && existingSig.has(sigNoBusiness(addr))) -> skip;
\* the loop of server.js has no such test
skipsRecord(addr, sigs) ==
    /\ variant # "server.js"
    /\ addr.AddressId = EmptyStr
    /\ sigNoBusiness(addr) \in sigs

addressLabel(addr) == <<addr.Address1, addr.Postal, addr.City>>

skippedEntry(idx, addr) ==
    [index |-> idx, address |-> addressLabel(addr), reason |-> "duplicate_in_addressbook"]

\* a variant of catchRecord that swallows the error
catchRecordSilently(errs, idx, addr, e) == errs

\* catch (e) { errors.push({ index, address, message, status }) }
catchRecord(errs, idx, addr, e) ==
    Append(errs,
           [index |-> idx,
            address |-> addressLabel(addr),
            message |-> IF e.response # Null THEN e.response.Message ELSE e.message,
            status |-> IF e.response # Null THEN e.response.status ELSE NoStatus])

\* a variant of onUpserted that counts a create only when its identifier
\* was resolved
onUpsertedResolvedOnly(c, sigs, addr, r) ==
    IF r.mode = "updated"
    THEN [counts |-> [c EXCEPT !.updatedCount = @ + 1], sigs |-> sigs, outcome |-> "updated"]
    ELSE [counts |-> IF r.addressId = EmptyStr THEN c ELSE [c EXCEPT !.createdCount = @ + 1],
          sigs |-> IF variant = "server.js" THEN sigs ELSE sigs \cup {sigNoBusiness(addr)},
          outcome |-> "created"]

\* if (r.mode === "updated") updatedCount++; else { createdCount++; existingSig.add(...) }
onUpserted(c, sigs, addr, r) ==
    IF r.mode = "updated"
    THEN [counts |-> [c EXCEPT !.updatedCount = @ + 1], sigs |-> sigs, outcome |-> "updated"]
    ELSE [counts |-> [c EXCEPT !.createdCount = @ + 1],
          sigs |-> IF variant = "server.js" THEN sigs ELSE sigs \cup {sigNoBusiness(addr)},
          outcome |-> "created"]

\* a variant of importSummary for which a skipped record is a failure too
importSummaryStrict(parsed, uniq, c, skips, errs) ==
    [kind |-> "summary", status |-> 200,
     ok |-> Len(errs) = 0 /\ Len(skips) = 0,
     totalParsed |-> Len(parsed),
     totalImported |-> Len(uniq),
     createdCount |-> c.createdCount,
     updatedCount |-> c.updatedCount,
     errorCount |-> Len(errs),
     errors |-> errs,
     skippedCount |-> c.skippedCount,
     skipped |-> skips]

\* res.json({ ok: errors.length === 0, totalParsed, totalImported, ... });
\* server.js reports neither skippedCount nor skipped
importSummary(parsed, uniq, c, skips, errs) ==
    LET base == [kind |-> "summary", status |-> 200,
                 ok |-> Len(errs) = 0,
                 totalParsed |-> Len(parsed),
                 totalImported |-> Len(uniq),
                 createdCount |-> c.createdCount,
                 updatedCount |-> c.updatedCount,
                 errorCount |-> Len(errs),
                 errors |-> errs]
    IN  IF variant = "server.js" THEN base
        ELSE base @@ [skippedCount |-> c.skippedCount, skipped |-> skips]

\* a rejected request: res.status(400).json({ error })
badRequest(msg) == [kind |-> "error", status |-> 400, error |-> msg]

\* a request-level failure: the catch of the route (server.js, part_001)
\* answers 500; part_000 hands the error to its error middleware
requestError(e) ==
    IF variant = "part_000"
    THEN [kind |-> "error",
          status |-> IF e.response # Null THEN e.response.status ELSE 500,
          ok |-> FALSE,
          error |-> e.message,
          upstream |-> IF e.response # Null THEN e.response.Message ELSE "null"]
    ELSE [kind |-> "error", status |-> 500, error |-> e.message]

\* authenticate(): POST to the authentication endpoint
authenticate(w, o) ==
    IF o = "ok" THEN Ok(Log(w, [op |-> "AUTH", ok |-> TRUE], o), "token")
    ELSE Throw(Log(w, [op |-> "AUTH", ok |-> FALSE], o), ErrorOf(o))

\* getUserId(client, siteDomain, email)
getUserId(w, o) ==
    IF o = "ok" THEN Ok(Log(w, [op |-> "USER", ok |-> TRUE], o), "userId")
    ELSE Throw(Log(w, [op |-> "USER", ok |-> FALSE], o), ErrorOf(o))

World == [book |-> book, nextId |-> nextId, calls |-> calls, faults |-> faults,
          lastCreate |-> lastCreate]

FreshWorld == [World EXCEPT !.calls = <<>>]

NoCounts == [createdCount |-> 0, updatedCount |-> 0, skippedCount |-> 0]

Outcomes == {"ok", "http", "timeout"}

PostOutcomes == Outcomes \cup {"unlisted"}

(***************************************************************************)
(* Inputs: address books the user may start with, and rows a file may hold.*)
(***************************************************************************)
entry(id, business, a1, postal, city, country) ==
    [AddressId |-> id, Business |-> business, FirstName |-> STR_Client,
     LastName |-> EmptyStr, Title |-> EmptyStr, Address1 |-> a1,
     Address2 |-> EmptyStr, Address3 |-> EmptyStr, City |-> city,
     StateProvince |-> STR_NA, Postal |-> postal, Country |-> country,
     Phone |-> EmptyStr, Email |-> EmptyStr]

E1 == entry(idStr(1), <<"Acme">>, <<"1", " ", "R">>, <<"7", "5">>, <<"P", "a">>, STR_FR)

E2 == entry(idStr(2), STR_Distribution, <<"2", " ", "r">>, <<"6", "9">>, <<"l", "y">>, STR_FR)

InitBooks ==
    { [PreferredAddress |-> Null, Addresses |-> <<>>],
      [PreferredAddress |-> E1, Addresses |-> <<>>],
      [PreferredAddress |-> E1, Addresses |-> <<E1, E2>>] }

\* the identifiers the platform has already assigned in an initial book
firstFreeId(ab) == Len(ab.Addresses) + (IF ab.PreferredAddress = Null THEN 1 ELSE 2)

RowPool ==
    { \* the address of E1, no identifier
      [Address1 |-> <<"1", " ", "R">>, Postal |-> <<"7", "5">>, City |-> <<"P", "a">>,
       Country |-> <<"F", "R">>],
      \* the same place in another case and spacing
      [Address1 |-> <<" ", "1", " ", " ", "r">>, Postal |-> <<"7", "5">>,
       City |-> <<"P", "A">>, Country |-> <<"f", "r">>],
      \* the same place under another organisation
      [Address1 |-> <<"1", " ", "R">>, Postal |-> <<"7", "5">>, City |-> <<"P", "a">>,
       Country |-> <<"F", "R">>, Business |-> <<"Acme">>],
      \* a row that names entry 1 and moves it to the address of E2
      [AddressId |-> idStr(1), Address1 |-> <<"2", " ", "r">>, Postal |-> <<"6", "9">>,
       City |-> <<"l", "y">>],
      \* another place, no identifier
      [Address1 |-> <<"3", " ", "r">>, Postal |-> <<"6", "9">>, City |-> <<"l", "y">>] }

SeqsUpTo(S, n) == UNION {[1..k -> S] : k \in 0..n}

Files == SeqsUpTo(RowPool, MaxRows)

\* no add-to-cart or addressbook/import request has been served, and no
\* concurrent request is in flight
NoOther ==
    /\ cart = <<>>
    /\ results = <<>>
    /\ createdList = <<>>
    /\ skippedDuplicates = <<>>
    /\ existingKeys = {}
    /\ inflight = <<>>
    /\ issued = 0

\* no validate-addresses, list or export request has been served, and no
\* signature computed
NoValidate ==
    /\ req = Null
    /\ mergedList = <<>>
    /\ validated = <<>>
    /\ existingSigToId = <<>>
    /\ valLog = <<>>
    /\ listed = Null
    /\ exported = Null
    /\ keyIn = <<>>
    /\ keyOut = <<>>
    /\ NoOther

(***************************************************************************)
(* Actions of import-file.                                                 *)
(***************************************************************************)
nFaults(sc) == Cardinality({k \in 1..Len(sc) : IsFault(sc[k])})

\* outcomes of a run of upstream calls: once a call has failed, the calls
\* after it are not made (written "ok")
Scenarios(first, second, third) ==
    {sc \in first \X second \X third :
        /\ sc[1] \in {"http", "timeout"} => (sc[2] = "ok" /\ sc[3] = "ok")
        /\ sc[2] \in {"http", "timeout"} => sc[3] = "ok"}

StartScenarios == Scenarios(Outcomes, Outcomes, Outcomes)

RecordScenarios == Scenarios(Outcomes, PostOutcomes, Outcomes)

\* the handler up to the loop: the file is parsed; authentication, user
\* lookup and (part_000, part_001) the address-book snapshot; the duplicate
\* pre-pass.  sc: the outcomes of the three upstream calls
importStart(parsed, w, sc) ==
    LET rejected(f) ==
            [w |-> f.w, resp |-> requestError(f.err), pc |-> "done",
             unique |-> <<>>, existingSig |-> {}]
        \* const abExisting = await getAddressBook(...) (part_000, part_001)
        snapshot(g) ==
            IF g.threw THEN rejected(g)
            ELSE [w |-> g.w, resp |-> Null, pc |-> "loop",
                  unique |-> dedupe(parsed, {}), existingSig |-> signaturesOf(g.value)]
        \* const userId = await getUserId(...)
        user(u) ==
            IF u.threw THEN rejected(u)
            ELSE snapshot(IF variant = "server.js" THEN Ok(u.w, w.book)
                          ELSE getAddressBook(u.w, sc[3]))
        \* const token = await authenticate()
        auth(a) == IF a.threw THEN rejected(a) ELSE user(getUserId(a.w, sc[2]))
    IN  IF parsed = <<>>
        THEN [w |-> w, resp |-> badRequest("Aucune ligne valide"), pc |-> "done",
              unique |-> <<>>, existingSig |-> {}]
        ELSE auth(authenticate(w, sc[1]))

BeginImport(rows, sc, again) ==
    /\ faults + nFaults(sc) <= MaxFaults
    /\ \E parsed \in {parseCsvBuffer(rows)} :
          /\ parsed = <<>> => nFaults(sc) = 0
          /\ variant = "server.js" => sc[3] = "ok"
          /\ \E st \in {importStart(parsed, FreshWorld, sc)} :
                /\ file' = rows
                /\ addresses' = parsed
                /\ calls' = st.w.calls
                /\ faults' = st.w.faults
                /\ resp' = st.resp
                /\ pc' = st.pc
                /\ unique' = st.unique
                /\ existingSig' = st.existingSig
    /\ rerun' = again
    /\ runs' = runs + 1
    /\ recLog' = <<>>
    /\ counts' = NoCounts
    /\ skipped' = <<>>
    /\ errors' = <<>>
    /\ i' = 1
    /\ abExisting' = book
    /\ UNCHANGED <<variant, book, nextId, lastCreate, mdIn, mdOut, validateVars,
                   bookVars, keyVars,
                   otherVars>>

\* a request with an uploaded file arrives
ImportFileStart(rows, sc) ==
    /\ pc = "idle"
    /\ BeginImport(rows, sc, FALSE)

\* the client uploads the same file again after a run that returned its
\* summary
ImportFileAgain(sc) ==
    /\ pc = "done"
    /\ resp.kind = "summary"
    /\ runs < MaxRuns
    /\ BeginImport(file, sc, TRUE)

\* one iteration of the loop over unique: skip, or upsert and count, or
\* catch the error of the upstream call.  sc: the outcomes of the template
\* fetch, of the PUT or POST, and of the re-fetch
importRecord(w, idx, addr, c, sigs, skips, errs, sc) ==
    IF skipsRecord(addr, sigs)
    THEN [w |-> w, counts |-> [c EXCEPT !.skippedCount = @ + 1], existingSig |-> sigs,
          skipped |-> Append(skips, skippedEntry(idx, addr)), errors |-> errs,
          outcome |-> "skipped", err |-> Null, value |-> Null]
    ELSE LET counted(r, done) ==
                 [w |-> r.w, counts |-> done.counts, existingSig |-> done.sigs,
                  skipped |-> skips, errors |-> errs,
                  outcome |-> done.outcome, err |-> Null, value |-> r.value]
             \* try { const r = await upsertAddress(...) ... } catch (e) { ... }
             upserted(r) ==
                 IF r.threw
                 THEN [w |-> r.w, counts |-> c, existingSig |-> sigs, skipped |-> skips,
                       errors |-> catchRecord(errs, idx, addr, r.err),
                       outcome |-> "error", err |-> r.err, value |-> Null]
                 ELSE counted(r, onUpserted(c, sigs, addr, r.value))
         IN  upserted(upsertAddress(w, addr, sc[1], sc[2], sc[3]))

ImportFileRecord(sc) ==
    /\ pc = "loop"
    /\ i <= Len(unique)
    /\ faults + nFaults(sc) <= MaxFaults
    /\ skipsRecord(unique[i], existingSig) => nFaults(sc) = 0
    /\ unique[i].AddressId # EmptyStr => (sc[2] # "unlisted" /\ sc[3] = "ok")
    /\ \E st \in {importRecord(World, i, unique[i], counts, existingSig, skipped,
                               errors, sc)} :
          /\ book' = st.w.book
          /\ nextId' = st.w.nextId
          /\ calls' = st.w.calls
          /\ faults' = st.w.faults
          /\ lastCreate' = st.w.lastCreate
          /\ counts' = st.counts
          /\ existingSig' = st.existingSig
          /\ skipped' = st.skipped
          /\ errors' = st.errors
          /\ recLog' = Append(recLog,
                 [index |-> i, addr |-> unique[i], outcome |-> st.outcome,
                  known |-> existingSig,
                  calls |-> SubSeq(st.w.calls, Len(calls) + 1, Len(st.w.calls)),
                  err |-> st.err, value |-> st.value, bookAfter |-> st.w.book])
    /\ i' = i + 1
    /\ UNCHANGED <<variant, pc, file, addresses, unique, abExisting, resp, runs, rerun,
                   mdIn, mdOut, validateVars, bookVars, keyVars,
                   otherVars>>

\* the loop is over: the summary is sent
ImportFileRespond ==
    /\ pc = "loop"
    /\ i > Len(unique)
    /\ resp' = importSummary(addresses, unique, counts, skipped, errors)
    /\ pc' = "done"
    /\ UNCHANGED <<variant, book, nextId, file, addresses, unique, i, abExisting,
                   existingSig, counts, skipped, errors, calls, recLog, runs, faults,
                   rerun, lastCreate, mdIn, mdOut, validateVars, bookVars, keyVars,
                   otherVars>>

NoCreate ==
    [payload |-> Null, posted |-> FALSE, refetched |-> FALSE, all |-> <<>>,
     result |-> EmptyStr]

Init ==
    /\ variant \in Variants
    /\ book \in InitBooks
    /\ nextId = firstFreeId(book)
    /\ pc = "idle"
    /\ file = <<>>
    /\ addresses = <<>>
    /\ unique = <<>>
    /\ i = 1
    /\ abExisting = book
    /\ existingSig = {}
    /\ counts = NoCounts
    /\ skipped = <<>>
    /\ errors = <<>>
    /\ resp = Null
    /\ calls = <<>>
    /\ recLog = <<>>
    /\ runs = 0
    /\ faults = 0
    /\ rerun = FALSE
    /\ lastCreate = NoCreate
    /\ mdIn = <<>>
    /\ mdOut = <<>>
    /\ NoValidate

Next ==
    \/ \E rows \in Files, sc \in StartScenarios : ImportFileStart(rows, sc)
    \/ \E sc \in RecordScenarios : ImportFileRecord(sc)
    \/ ImportFileRespond

Spec == Init /\ [][Next]_vars

NextRerun ==
    \/ Next
    \/ \E sc \in StartScenarios : ImportFileAgain(sc)

SpecRerun == Init /\ [][NextRerun]_vars

(***************************************************************************)
(* import-file on files that hold incomplete rows.                         *)
(***************************************************************************)
RawRowPool ==
    { \* a complete row
      [Address1 |-> <<"1", " ", "R">>, Postal |-> <<"7", "5">>, City |-> <<"P", "a">>],
      \* another complete row, its country blank
      [Address1 |-> <<"3", " ", "r">>, Postal |-> <<" ", "6", "9">>, City |-> <<"l", "y">>,
       Country |-> <<" ">>],
      \* no postal code column
      [Address1 |-> <<"1", " ", "R">>, City |-> <<"P", "a">>],
      \* a blank postal code
      [Address1 |-> <<"3", " ", "r">>, Postal |-> <<" ", "\t">>, City |-> <<"l", "y">>],
      \* an empty city
      [Address1 |-> <<"1", " ", "R">>, Postal |-> <<"7", "5">>, City |-> <<>>],
      \* a blank street line
      [Address1 |-> <<" ">>, Postal |-> <<"7", "5">>, City |-> <<"P", "a">>,
       Country |-> <<"F", "R">>] }

RawFiles == SeqsUpTo(RawRowPool, MaxRows)

NextExtract ==
    \/ \E rows \in RawFiles, sc \in StartScenarios : ImportFileStart(rows, sc)
    \/ \E sc \in RecordScenarios : ImportFileRecord(sc)
    \/ ImportFileRespond

SpecExtract == Init /\ [][NextExtract]_vars

(***************************************************************************)
(* mergeDuplicates.  A distribution line maps property names to values; a  *)
(* quantity is a number [num |-> n] or a text [text |-> s].                *)
(***************************************************************************)
Num(n) == [num |-> n]

IsNum(q) == "num" \in DOMAIN q

\* r?.qty || r?.quantity || d : the first truthy of the two, else d
qtyOperand(r, d) ==
    LET truthy(k) ==
            /\ k \in DOMAIN r
            /\ IF IsNum(r[k]) THEN r[k].num # 0 ELSE r[k].text # ""
    IN  IF truthy("qty") THEN r.qty
        ELSE IF truthy("quantity") THEN r.quantity
        ELSE Num(d)

\* Number(x) || d for the texts of the model, none of which is numeric
numberOr(q, d) == IF IsNum(q) /\ q.num # 0 THEN q.num ELSE d

\* parseInt(row.qty, 10) || 0
parseIntOr0(r) == IF "qty" \in DOMAIN r /\ IsNum(r.qty) THEN r.qty.num ELSE 0

\* addrKey({ address, zip, city }) of server.js
addrKey(row) == join3(norm(Get(row, "address")), norm(Get(row, "zip")), norm(Get(row, "city")))

\* the position of key in the map (insertion order), 0 when absent
mapIndex(map, key) ==
    IF \E k \in 1..Len(map) : map[k].key = key
    THEN CHOOSE k \in 1..Len(map) : map[k].key = key
    ELSE 0

\* map.set(key, value with qty added), keeping the insertion order
mapAdd(map, key, fresh, qty) ==
    LET at == mapIndex(map, key)
    IN  IF at = 0 THEN Append(map, [key |-> key, val |-> [fresh EXCEPT !.qty = qty]])
        ELSE [map EXCEPT ![at].val.qty = @ + qty]

\* one iteration of mergeDuplicates in part_000 and part_001
mergeStep(map, r) ==
    LET address == trim(Or(Get(r, "address"), Get(r, "Address1")))
        zip == trim(Or(Get(r, "zip"), Get(r, "Postal")))
        city == trim(Or(Get(r, "city"), Get(r, "City")))
        country == toUpperCase(trim(Or(Or(Get(r, "country"), Get(r, "Country")), STR_FR)))
        qty == IF variant = "part_000" THEN numberOr(qtyOperand(r, 1), 1)
               ELSE numberOr(qtyOperand(r, 0), 0)
        key == join4(norm(address), norm(zip), norm(city), norm(country))
        fresh == [address |-> address, zip |-> zip, city |-> city, country |-> country,
                  qty |-> 0]
    IN  IF address = EmptyStr \/ zip = EmptyStr \/ city = EmptyStr THEN map
        ELSE IF variant = "part_001" /\ qty <= 0 THEN map
        ELSE mapAdd(map, key, fresh, qty)

\* one iteration of mergeDuplicates in server.js
mergeStepServer(map, row) ==
    LET qty == parseIntOr0(row)
        key == addrKey(row)
    IN  IF qty <= 0 THEN map
        ELSE IF key = <<"|", "|">> THEN map
        ELSE mapAdd(map, key, [k \in DOMAIN row \cup {"qty"} |-> IF k = "qty" THEN 0 ELSE row[k]],
                    qty)

RECURSIVE mergeLoop(_, _)
mergeLoop(map, list) ==
    IF list = <<>> THEN map
    ELSE mergeLoop(IF variant = "server.js" THEN mergeStepServer(map, Head(list))
                   ELSE mergeStep(map, Head(list)),
                   Tail(list))

\* mergeDuplicates(list): [...map.values()]
mergeDuplicates(list) ==
    LET map == mergeLoop(<<>>, list)
    IN  [k \in 1..Len(map) |-> map[k].val]

LinePool ==
    { [address |-> <<"1", " ", "R">>, zip |-> <<"7", "5">>, city |-> <<"P", "a">>,
       qty |-> Num(2)],
      [address |-> <<"1", " ", " ", "r">>, zip |-> <<"7", "5">>, city |-> <<"P", "A">>,
       country |-> <<"f", "r">>, qty |-> Num(3)],
      [address |-> <<"1", " ", "R">>, zip |-> <<"7", "5">>, city |-> <<"P", "a">>,
       country |-> <<"B", "E">>, qty |-> Num(3)],
      [address |-> <<"1", " ", "R">>, zip |-> <<"7", "5">>, city |-> <<"P", "a">>,
       country |-> STR_FR, qty |-> Num(0)],
      [address |-> <<"2", " ", "r">>, zip |-> <<"6", "9">>, city |-> <<"l", "y">>,
       quantity |-> Num(1)],
      [address |-> <<"2", " ", "r">>, zip |-> <<"6", "9">>, city |-> <<"l", "y">>,
       qty |-> [text |-> "abc"]],
      [address |-> <<"2", " ", "r">>, zip |-> <<"6", "9">>, city |-> <<"l", "y">>,
       qty |-> Num(-1)] }

Lists == SeqsUpTo(LinePool, MaxLines)

\* mergeDuplicates applied to a distribution list
MergeDuplicates ==
    /\ pc = "merge"
    /\ mdOut' = mergeDuplicates(mdIn)
    /\ pc' = "merged"
    /\ UNCHANGED <<variant, book, nextId, file, addresses, unique, i, abExisting,
                   existingSig, counts, skipped, errors, resp, calls, recLog, runs,
                   faults, rerun, lastCreate, mdIn, validateVars, bookVars, keyVars,
                   otherVars>>

InitMerge ==
    /\ variant \in Variants
    /\ book \in InitBooks
    /\ nextId = firstFreeId(book)
    /\ pc = "merge"
    /\ file = <<>>
    /\ addresses = <<>>
    /\ unique = <<>>
    /\ i = 1
    /\ abExisting = book
    /\ existingSig = {}
    /\ counts = NoCounts
    /\ skipped = <<>>
    /\ errors = <<>>
    /\ resp = Null
    /\ calls = <<>>
    /\ recLog = <<>>
    /\ runs = 0
    /\ faults = 0
    /\ rerun = FALSE
    /\ lastCreate = NoCreate
    /\ mdIn \in Lists
    /\ mdOut = <<>>
    /\ NoValidate

NextMerge == MergeDuplicates

SpecMerge == InitMerge /\ [][NextMerge]_vars

(***************************************************************************)
(* Request validation.  A site domain is a sequence of characters and      *)
(* lower-case words.                                                       *)
(***************************************************************************)
Error(msg) == [response |-> Null, message |-> msg]

\* the texts /^[a-z0-9.-]+$/i accepts
IsDomainChar(c) == c \in {"shop", "pressero", "example", "com", ".", "-"}

endsWith(s, suffix) ==
    /\ Len(s) >= Len(suffix)
    /\ SubSeq(s, Len(s) - Len(suffix) + 1, Len(s)) = suffix

\* assertSiteDomain(siteDomain): the cleaned domain, or an Error thrown
assertSiteDomain(siteDomain) ==
    LET \* part_000: (siteDomain || "").trim(), then the character test
        loose(sd) ==
            IF sd = EmptyStr THEN [threw |-> TRUE, err |-> Error("siteDomain requis")]
            ELSE IF \E k \in 1..Len(sd) : ~IsDomainChar(sd[k])
            THEN [threw |-> TRUE, err |-> Error("siteDomain invalide")]
            ELSE [threw |-> FALSE, value |-> sd]
        \* server.js, part_001: siteDomain.trim().toLowerCase(), then the suffix
        \* and the test for "/" and whitespace
        strict(sd) ==
            IF ~endsWith(sd, <<".", "pressero", ".", "com">>)
            THEN [threw |-> TRUE, err |-> Error("siteDomain invalide")]
            ELSE IF \E k \in 1..Len(sd) : sd[k] = "/" \/ IsWs(sd[k])
            THEN [threw |-> TRUE, err |-> Error("siteDomain invalide")]
            ELSE [threw |-> FALSE, value |-> sd]
    IN  IF variant = "part_000" THEN loose(trim(siteDomain))
        ELSE IF siteDomain = EmptyStr
        THEN [threw |-> TRUE, err |-> Error("siteDomain requis")]
        ELSE strict(toLowerCase(trim(siteDomain)))

(***************************************************************************)
(* POST /validate-addresses                                                *)
(***************************************************************************)
EmptyMap == [k \in {} |-> EmptyStr]

\* map.set(key, id)
mapSet(m, key, id) == (key :> id) @@ m

\* map.get(key) || null
mapGet(m, key) == IF key \in DOMAIN m THEN m[key] ELSE EmptyStr

\* the entries the map is built from: server.js reads ab.Addresses only
existingOf(ab) == IF variant = "server.js" THEN ab.Addresses ELSE allOf(ab)

\* the key of an address-book entry in the map
existingKey(a) ==
    IF variant = "server.js"
    THEN addrKey([address |-> a.Address1, zip |-> a.Postal, city |-> a.City])
    ELSE sigNoBusiness(a)

\* for (const a of existingAll) if (a?.AddressId) map.set(key(a), a.AddressId)
RECURSIVE buildExisting(_, _)
buildExisting(m, entries) ==
    IF entries = <<>> THEN m
    ELSE buildExisting(IF Head(entries).AddressId # EmptyStr
                       THEN mapSet(m, existingKey(Head(entries)), Head(entries).AddressId)
                       ELSE m,
                       Tail(entries))

\* the address validate-addresses builds from a merged line
rowAddress(row, preferred) ==
    [Business |-> IF variant = "server.js" THEN Or(Get(row, "business"), STR_Distribution)
                  ELSE STR_Distribution,
     Address1 |-> Get(row, "address"),
     City |-> Get(row, "city"),
     Postal |-> Get(row, "zip"),
     Country |-> Or(Get(row, "country"), Or(TGet(preferred, "Country"), STR_FR))]

\* the key a merged line is looked up with
rowKey(row, addr) == IF variant = "server.js" THEN addrKey(row) ELSE sigNoBusiness(addr)

\* { ...row, addressId }
withAddressId(row, id) ==
    [k \in DOMAIN row \cup {"addressId"} |-> IF k = "addressId" THEN id ELSE row[k]]

\* the handler up to the loop: the body is checked, the list is merged,
\* then authentication, user lookup, address-book fetch and the map
validateStart(body, w, sc) ==
    LET stop(x, r) ==
            [w |-> x, resp |-> r, pc |-> "done", mergedList |-> <<>>, ab |-> w.book,
             existingSigToId |-> EmptyMap]
        fetched(list, g) ==
            IF g.threw THEN stop(g.w, requestError(g.err))
            ELSE [w |-> g.w, resp |-> Null, pc |-> "vloop", mergedList |-> list,
                  ab |-> g.value,
                  existingSigToId |-> buildExisting(EmptyMap, existingOf(g.value))]
        user(list, u) ==
            IF u.threw THEN stop(u.w, requestError(u.err))
            ELSE fetched(list, getAddressBook(u.w, sc[3]))
        auth(list, a) ==
            IF a.threw THEN stop(a.w, requestError(a.err))
            ELSE user(list, getUserId(a.w, sc[2]))
        merge(list) ==
            IF list = <<>> THEN stop(w, badRequest("distributionList vide"))
            ELSE auth(list, authenticate(w, sc[1]))
        domain(sd) ==
            IF sd.threw THEN stop(w, requestError(sd.err))
            ELSE merge(mergeDuplicates(body.distributionList))
    IN  IF body.userEmail = EmptyStr THEN stop(w, badRequest("userEmail requis"))
        ELSE domain(assertSiteDomain(body.siteDomain))

\* a variant of requireAddressId that lets an unresolved line through
requireAddressIdNever(addressId) == [threw |-> FALSE, err |-> Null]

\* if (!addressId) throw new Error("Impossible de créer/trouver l'adresse: ...")
requireAddressId(addressId) ==
    IF addressId = EmptyStr
    THEN [threw |-> TRUE, err |-> Error("Impossible de créer/trouver l'adresse")]
    ELSE [threw |-> FALSE, err |-> Null]

\* one iteration of the loop over the merged lines; oPost and oGet are the
\* outcomes of the two calls of createAddress
validateRow(w, row, m, preferred, oPost, oGet) ==
    LET result(x, threw, err, id, map, created) ==
            [w |-> x, threw |-> threw, err |-> err, addressId |-> id, map |-> map,
             created |-> created]
        \* if (addressId) existingSigToId.set(s, addressId)  (part_000, part_001)
        remember(key, id) ==
            IF variant = "server.js" \/ id = EmptyStr THEN m ELSE mapSet(m, key, id)
        checked(key, c, t) ==
            IF t.threw THEN result(c.w, TRUE, t.err, EmptyStr, m, TRUE)
            ELSE result(c.w, FALSE, Null, c.value, remember(key, c.value), TRUE)
        made(key, c) ==
            IF c.threw THEN result(c.w, TRUE, c.err, EmptyStr, m, TRUE)
            ELSE checked(key, c, requireAddressId(c.value))
        looked(addr, key, hit) ==
            IF hit # EmptyStr THEN result(w, FALSE, Null, hit, m, FALSE)
            ELSE made(key, createAddress(w, addr, preferred, oPost, oGet))
        keyed(addr, key) == looked(addr, key, mapGet(m, key))
        built(addr) == keyed(addr, rowKey(row, addr))
    IN  built(rowAddress(row, preferred))

UserEmail == <<"u">>

ValidDomain == <<"shop", ".", "pressero", ".", "com">>

\* a domain outside pressero.com, a domain with a space in it, no domain
BadDomains ==
    { <<"shop", ".", "example", ".", "com">>,
      <<"shop", " ", ".", "pressero", ".", "com">>,
      EmptyStr }

OneLine ==
    <<[address |-> <<"1", " ", "R">>, zip |-> <<"7", "5">>, city |-> <<"P", "a">>,
       qty |-> Num(2)]>>

\* request bodies: every distribution list with a good email and domain,
\* and one list with the email missing or the domain missing or malformed
Bodies ==
    {[userEmail |-> UserEmail, siteDomain |-> ValidDomain, distributionList |-> l] :
        l \in Lists}
    \cup {[userEmail |-> e, siteDomain |-> d, distributionList |-> OneLine] :
            e \in {UserEmail, EmptyStr}, d \in BadDomains \cup {ValidDomain}}

\* the outcomes of the POST and of the re-fetch of one createAddress
CreateScenarios ==
    {sc \in PostOutcomes \X Outcomes : sc[1] \in {"http", "timeout"} => sc[2] = "ok"}

\* a validate-addresses request arrives
ValidateStart(body, sc) ==
    /\ pc = "idle"
    /\ faults + nFaults(sc) <= MaxFaults
    /\ \E st \in {validateStart(body, FreshWorld, sc)} :
          /\ st.w.calls = <<>> => nFaults(sc) = 0
          /\ req' = body
          /\ mergedList' = st.mergedList
          /\ existingSigToId' = st.existingSigToId
          /\ abExisting' = st.ab
          /\ calls' = st.w.calls
          /\ faults' = st.w.faults
          /\ resp' = st.resp
          /\ pc' = st.pc
    /\ validated' = <<>>
    /\ valLog' = <<>>
    /\ i' = 1
    /\ runs' = runs + 1
    /\ UNCHANGED <<variant, book, nextId, file, addresses, unique, existingSig, counts,
                   skipped, errors, recLog, rerun, lastCreate, mdIn, mdOut, bookVars,
                   keyVars,
                   otherVars>>

\* one merged line is resolved: found in the map, or created; a failure
\* ends the request with the error response
ValidateRow(sc) ==
    /\ pc = "vloop"
    /\ i <= Len(mergedList)
    /\ faults + nFaults(sc) <= MaxFaults
    /\ \E st \in {validateRow(World, mergedList[i], existingSigToId,
                             abExisting.PreferredAddress, sc[1], sc[2])} :
          /\ ~st.created => nFaults(sc) = 0
          /\ book' = st.w.book
          /\ nextId' = st.w.nextId
          /\ calls' = st.w.calls
          /\ faults' = st.w.faults
          /\ lastCreate' = st.w.lastCreate
          /\ existingSigToId' = st.map
          /\ validated' = IF st.threw THEN validated
                          ELSE Append(validated, withAddressId(mergedList[i], st.addressId))
          /\ resp' = IF st.threw THEN requestError(st.err) ELSE resp
          /\ pc' = IF st.threw THEN "done" ELSE pc
          /\ valLog' = Append(valLog,
                 [row |-> mergedList[i], known |-> existingSigToId,
                  addressId |-> st.addressId, created |-> st.created,
                  threw |-> st.threw,
                  calls |-> SubSeq(st.w.calls, Len(calls) + 1, Len(st.w.calls)),
                  bookBefore |-> book])
    /\ i' = i + 1
    /\ UNCHANGED <<variant, file, addresses, unique, abExisting, existingSig, counts,
                   skipped, errors, recLog, runs, rerun, mdIn, mdOut, req, mergedList,
                   bookVars, keyVars,
                   otherVars>>

\* the loop is over: res.json({ ok: true, userId, validated })
ValidateRespond ==
    /\ pc = "vloop"
    /\ i > Len(mergedList)
    /\ resp' = [kind |-> "validated", status |-> 200, ok |-> TRUE, userId |-> "userId",
                validated |-> validated]
    /\ pc' = "done"
    /\ UNCHANGED <<variant, book, nextId, file, addresses, unique, i, abExisting,
                   existingSig, counts, skipped, errors, calls, recLog, runs, faults,
                   rerun, lastCreate, mdIn, mdOut, validateVars, bookVars, keyVars,
                   otherVars>>

NextValidate ==
    \/ \E body \in Bodies, sc \in StartScenarios : ValidateStart(body, sc)
    \/ \E sc \in CreateScenarios : ValidateRow(sc)
    \/ ValidateRespond

SpecValidate == Init /\ [][NextValidate]_vars

(***************************************************************************)
(* POST /addressbook/list and GET /addressbook/export.csv                  *)
(***************************************************************************)
\* the start of both handlers: userEmail, assertSiteDomain, authenticate,
\* getUserId, getAddressBook.  stage: "missing" (userEmail), "threw", "ok"
fetchBook(body, w, sc) ==
    LET out(x, stage, err, ab) == [w |-> x, stage |-> stage, err |-> err, ab |-> ab]
        fetched(g) ==
            IF g.threw THEN out(g.w, "threw", g.err, Null) ELSE out(g.w, "ok", Null, g.value)
        user(u) ==
            IF u.threw THEN out(u.w, "threw", u.err, Null)
            ELSE fetched(getAddressBook(u.w, sc[3]))
        auth(a) ==
            IF a.threw THEN out(a.w, "threw", a.err, Null) ELSE user(getUserId(a.w, sc[2]))
        domain(sd) ==
            IF sd.threw THEN out(w, "threw", sd.err, Null) ELSE auth(authenticate(w, sc[1]))
    IN  IF body.userEmail = EmptyStr THEN out(w, "missing", Null, Null)
        ELSE domain(assertSiteDomain(body.siteDomain))

\* const map = new Map(); for (a of [preferred, ...addresses].filter(Boolean))
\*   if (id && !map.has(id)) map.set(id, a);  [...map.values()]
RECURSIVE uniqueById(_, _)
uniqueById(entries, seen) ==
    IF entries = <<>> THEN <<>>
    ELSE IF Head(entries).AddressId = EmptyStr \/ Head(entries).AddressId \in seen
         THEN uniqueById(Tail(entries), seen)
         ELSE <<Head(entries)>> \o uniqueById(Tail(entries),
                                              seen \cup {Head(entries).AddressId})

\* a variant of listResponse that lists every entry as fetched
listResponseRaw(ab) ==
    [kind |-> "list", status |-> 200, ok |-> TRUE,
     preferredId |-> TGet(ab.PreferredAddress, "AddressId"),
     addresses |-> allOf(ab)]

\* res.json({ ok: true, preferredId, addresses }); preferredId null is ""
listResponse(ab) ==
    [kind |-> "list", status |-> 200, ok |-> TRUE,
     preferredId |-> TGet(ab.PreferredAddress, "AddressId"),
     addresses |-> uniqueById(allOf(ab), {})]

\* s.replace(/"/g, '""') followed by the closing quote
RECURSIVE quoted(_)
quoted(s) ==
    LET doubled(t) ==
            IF t = <<>> THEN <<"\"">>
            ELSE (IF Head(t) = "\"" THEN <<"\"", "\"">> ELSE <<Head(t)>>) \o quoted(Tail(t))
    IN  doubled(s)

\* csvEscape(v): quoted when the text holds a quote, a comma or a newline
csvEscape(v) ==
    IF \E k \in 1..Len(v) : v[k] \in {"\"", ",", "\n"}
    THEN <<"\"">> \o quoted(v)
    ELSE v

\* the data rows of the exported file, each a map from header to cell text
exportRows(ab) ==
    LET flag(b) == IF b THEN <<"true">> ELSE <<"false">>
        \* server.js, part_001: the preferred address, then every additional one
        plain(a, pref) ==
            [h \in Fields \cup {"IsPreferred", "Qty"} |->
                csvEscape(IF h = "IsPreferred" THEN flag(pref)
                          ELSE IF h = "Qty" THEN EmptyStr
                          ELSE Get(a, h))]
        \* part_000: the entries deduplicated by AddressId, every cell quoted
        deduped(a) ==
            [h \in Fields \cup {"IsPreferred"} |->
                <<"\"">> \o
                quoted(IF h = "IsPreferred"
                       THEN flag(a.AddressId # EmptyStr
                                 /\ TGet(ab.PreferredAddress, "AddressId") # EmptyStr
                                 /\ a.AddressId = ab.PreferredAddress.AddressId)
                       ELSE Get(a, h))]
        each(list) == [k \in 1..Len(list) |-> deduped(list[k])]
    IN  IF variant = "part_000" THEN each(uniqueById(allOf(ab), {}))
        ELSE (IF ab.PreferredAddress = Null THEN <<>>
              ELSE <<plain(ab.PreferredAddress, TRUE)>>)
             \o [k \in 1..Len(ab.Addresses) |-> plain(ab.Addresses[k], FALSE)]

\* an entry the platform holds without an identifier
NoIdEntry == [E2 EXCEPT !.AddressId = EmptyStr]

\* address books: the preferred address alone, repeated among the others,
\* absent, without identifier; an additional address listed twice
ListBooks ==
    InitBooks \cup
    { [PreferredAddress |-> Null, Addresses |-> <<E1, E2>>],
      [PreferredAddress |-> E2, Addresses |-> <<E1, E2, E1>>],
      [PreferredAddress |-> NoIdEntry, Addresses |-> <<E1>>],
      [PreferredAddress |-> E1, Addresses |-> <<NoIdEntry, E2>>] }

BookBodies ==
    {[userEmail |-> e, siteDomain |-> d] :
        e \in {UserEmail, EmptyStr}, d \in BadDomains \cup {ValidDomain}}

\* POST /addressbook/list
AddressbookList(body, sc) ==
    /\ pc = "idle"
    /\ listed = Null
    /\ faults + nFaults(sc) <= MaxFaults
    /\ \E st \in {fetchBook(body, FreshWorld, sc)} :
          /\ st.w.calls = <<>> => nFaults(sc) = 0
          /\ calls' = st.w.calls
          /\ faults' = st.w.faults
          /\ listed' = CASE st.stage = "missing" -> badRequest("userEmail requis")
                         [] st.stage = "threw" -> requestError(st.err)
                         [] OTHER -> listResponse(st.ab)
    /\ req' = body
    /\ runs' = runs + 1
    /\ UNCHANGED <<variant, book, nextId, pc, file, addresses, unique, i, abExisting,
                   existingSig, counts, skipped, errors, resp, recLog, rerun, lastCreate,
                   mdIn, mdOut, mergedList, validated, existingSigToId, valLog, exported,
                   keyVars,
                   otherVars>>

\* GET /addressbook/export.csv
ExportCsv(body, sc) ==
    /\ pc = "idle"
    /\ exported = Null
    /\ faults + nFaults(sc) <= MaxFaults
    /\ \E st \in {fetchBook(body, FreshWorld, sc)} :
          /\ st.w.calls = <<>> => nFaults(sc) = 0
          /\ calls' = st.w.calls
          /\ faults' = st.w.faults
          /\ exported' = CASE st.stage = "missing" -> badRequest("userEmail requis")
                           [] st.stage = "threw" -> requestError(st.err)
                           [] OTHER -> [kind |-> "csv", status |-> 200,
                                        rows |-> exportRows(st.ab)]
    /\ req' = body
    /\ runs' = runs + 1
    /\ UNCHANGED <<variant, book, nextId, pc, file, addresses, unique, i, abExisting,
                   existingSig, counts, skipped, errors, resp, recLog, rerun, lastCreate,
                   mdIn, mdOut, mergedList, validated, existingSigToId, valLog, listed,
                   keyVars,
                   otherVars>>

InitBook ==
    /\ variant \in Variants
    /\ book \in ListBooks
    /\ nextId = firstFreeId(book)
    /\ pc = "idle"
    /\ file = <<>>
    /\ addresses = <<>>
    /\ unique = <<>>
    /\ i = 1
    /\ abExisting = book
    /\ existingSig = {}
    /\ counts = NoCounts
    /\ skipped = <<>>
    /\ errors = <<>>
    /\ resp = Null
    /\ calls = <<>>
    /\ recLog = <<>>
    /\ runs = 0
    /\ faults = 0
    /\ rerun = FALSE
    /\ lastCreate = NoCreate
    /\ mdIn = <<>>
    /\ mdOut = <<>>
    /\ NoValidate

NextBook ==
    \/ \E body \in BookBodies, sc \in StartScenarios : AddressbookList(body, sc)
    \/ \E body \in BookBodies, sc \in StartScenarios : ExportCsv(body, sc)

SpecBook == InitBook /\ [][NextBook]_vars

(***************************************************************************)
(* sigNoBusiness (part_000, part_001) applied to two address records.  A   *)
(* field that is null or undefined is a field the record does not have.    *)
(***************************************************************************)
Absent == <<"(absent)">>

\* address records in which any of the four fields may be missing
KeyRecords ==
    LET opt(name, v) == IF v = Absent THEN [x \in {} |-> EmptyStr] ELSE (name :> v)
    IN  {opt("Address1", a) @@ opt("Postal", p) @@ opt("City", c) @@ opt("Country", k) :
            a \in {<<"1", " ", "R">>, <<" ", "1", " ", "r", " ">>, <<"1", " ", " ", "R">>,
                   <<"2", " ", "r">>, Absent},
            p \in {<<"7", "5">>, Absent},
            c \in {<<"P", "a">>, <<"P", "A", "\t">>},
            k \in {<<"F", "R">>, <<" ", "f", "r">>, Absent}}

\* the signatures of the two records are computed
ComputeKeys ==
    /\ pc = "key"
    /\ keyOut' = <<sigNoBusiness(keyIn[1]), sigNoBusiness(keyIn[2])>>
    /\ pc' = "keyed"
    /\ UNCHANGED <<variant, book, nextId, file, addresses, unique, i, abExisting,
                   existingSig, counts, skipped, errors, resp, calls, recLog, runs,
                   faults, rerun, lastCreate, mdIn, mdOut, validateVars, bookVars, keyIn,
                   otherVars>>

InitKey ==
    /\ variant \in {"part_000", "part_001"}
    /\ book = [PreferredAddress |-> Null, Addresses |-> <<>>]
    /\ nextId = 1
    /\ pc = "key"
    /\ file = <<>>
    /\ addresses = <<>>
    /\ unique = <<>>
    /\ i = 1
    /\ abExisting = book
    /\ existingSig = {}
    /\ counts = NoCounts
    /\ skipped = <<>>
    /\ errors = <<>>
    /\ resp = Null
    /\ calls = <<>>
    /\ recLog = <<>>
    /\ runs = 0
    /\ faults = 0
    /\ rerun = FALSE
    /\ lastCreate = NoCreate
    /\ mdIn = <<>>
    /\ mdOut = <<>>
    /\ req = Null
    /\ mergedList = <<>>
    /\ validated = <<>>
    /\ existingSigToId = <<>>
    /\ valLog = <<>>
    /\ listed = Null
    /\ exported = Null
    /\ keyIn \in KeyRecords \X KeyRecords
    /\ keyOut = <<>>
    /\ NoOther

NextKey == ComputeKeys

SpecKey == InitKey /\ [][NextKey]_vars

(***************************************************************************)
(* POST /add-to-cart-distribution (server.js and part_001; part_000 has no *)
(* such route).  The platform answers the POST of a cart item with 2xx, or *)
(* with 400 and the message ReOrderFullSuccess_PriceWarning ("warning"),   *)
(* or with 400 and another message ("rejected"), or with another error     *)
(* status, or not at all.                                                  *)
(***************************************************************************)
\* getCartId(client, siteDomain, userId)
getCartId(w, o) ==
    IF o = "ok" THEN Ok(Log(w, [op |-> "CART", ok |-> TRUE], o), "cartId")
    ELSE Throw(Log(w, [op |-> "CART", ok |-> FALSE], o), ErrorOf(o))

\* resolveProductId(client, siteDomain, urlName)
resolveProductId(w, o) ==
    IF o = "ok" THEN Ok(Log(w, [op |-> "PRODUCT", ok |-> TRUE], o), "productId")
    ELSE Throw(Log(w, [op |-> "PRODUCT", ok |-> FALSE], o), ErrorOf(o))

\* client.post(`/api/cart/${sd}/${cartId}/item/`, payload): the item is in
\* the cart after a 2xx answer and after the price warning
postCartItem(w, line, payload, o) ==
    LET call == [op |-> "ITEM", ok |-> o = "ok", line |-> line, payload |-> payload]
        answer(w1) ==
            CASE o = "ok" -> Ok([w1 EXCEPT !.cart = Append(@, payload)], [status |-> 200])
              [] o = "warning" ->
                   Throw([w1 EXCEPT !.cart = Append(@, payload)],
                         [response |-> [status |-> 400,
                                        Message |-> "ReOrderFullSuccess_PriceWarning"],
                          message |-> "Request failed"])
              [] o = "rejected" ->
                   Throw(w1, [response |-> [status |-> 400, Message |-> "UpstreamMessage"],
                              message |-> "Request failed"])
              [] OTHER -> Throw(w1, ErrorOf(o))
    IN  answer(Log(w, call, o))

\* a variant of isPriceWarning that takes every 400 for the price warning
isPriceWarningAny400(err) == err.response # Null /\ err.response.status = 400

\* status === 400 && msg === "ReOrderFullSuccess_PriceWarning"
isPriceWarning(err) ==
    /\ err.response # Null
    /\ err.response.status = 400
    /\ err.response.Message = "ReOrderFullSuccess_PriceWarning"

\* request bodies: every list of at most MaxLines lines with the other
\* fields in order, and one list with a field missing or the domain malformed
CartBodies ==
    LET linePool ==
            { [addressId |-> <<"1">>, qty |-> Num(2)],
              [addressId |-> <<"2">>, qty |-> Num(3), label |-> <<"L">>],
              [addressId |-> <<"2">>, qty |-> Num(0)],
              [addressId |-> <<"3">>, qty |-> Num(-1)],
              [addressId |-> <<"3">>] }
        body(sd, url, options, lines) ==
            [userEmail |-> UserEmail, siteDomain |-> sd, urlName |-> url,
             shippingMethod |-> <<"ship">>, pricingOptions |-> options,
             otherQuantities |-> <<>>, lines |-> lines]
        oneLine == <<[addressId |-> <<"1">>, qty |-> Num(2)]>>
    IN  {body(ValidDomain, <<"brochure">>, <<"opt">>, l) : l \in SeqsUpTo(linePool, MaxLines)}
        \cup {body(d, <<"brochure">>, <<"opt">>, oneLine) : d \in BadDomains}
        \cup {body(ValidDomain, EmptyStr, <<"opt">>, oneLine),
              body(ValidDomain, <<"brochure">>, <<>>, oneLine)}

CartWorld == [calls |-> calls, faults |-> faults, cart |-> cart]

\* the handler up to the loop: the body is checked, then authentication,
\* user lookup, cart lookup and product lookup.  sc: the outcomes of the
\* first three calls, oProduct: of the fourth
AddToCartStart(body, sc, oProduct) ==
    /\ pc = "idle"
    /\ faults + nFaults(sc) + (IF IsFault(oProduct) THEN 1 ELSE 0) <= MaxFaults
    /\ IsFault(oProduct) => nFaults(sc) = 0
    /\ LET stop(w, r) == [w |-> w, resp |-> r, pc |-> "done"]
           product(p) ==
               IF p.threw THEN stop(p.w, requestError(p.err))
               ELSE [w |-> p.w, resp |-> Null, pc |-> "cloop"]
           cartId(c) ==
               IF c.threw THEN stop(c.w, requestError(c.err))
               ELSE product(resolveProductId(c.w, oProduct))
           user(u) ==
               IF u.threw THEN stop(u.w, requestError(u.err))
               ELSE cartId(getCartId(u.w, sc[3]))
           auth(a) ==
               IF a.threw THEN stop(a.w, requestError(a.err))
               ELSE user(getUserId(a.w, sc[2]))
           domain(w, sd) ==
               IF sd.threw THEN stop(w, requestError(sd.err))
               ELSE auth(authenticate(w, sc[1]))
           start(w) ==
               IF \/ body.userEmail = EmptyStr
                  \/ body.siteDomain = EmptyStr
                  \/ body.urlName = EmptyStr
                  \/ body.shippingMethod = EmptyStr
               THEN stop(w, badRequest("userEmail, siteDomain, urlName, shippingMethod requis"))
               ELSE IF body.pricingOptions = <<>>
               THEN stop(w, badRequest("pricingOptions manquant"))
               ELSE IF body.lines = <<>>
               THEN stop(w, badRequest("lines manquant"))
               ELSE domain(w, assertSiteDomain(body.siteDomain))
       IN  \E st \in {start([CartWorld EXCEPT !.calls = <<>>])} :
              /\ Len(st.w.calls) < 4 =>
                    /\ ~IsFault(oProduct)
                    /\ \A k \in (Len(st.w.calls) + 1)..3 : ~IsFault(sc[k])
              /\ calls' = st.w.calls
              /\ faults' = st.w.faults
              /\ resp' = st.resp
              /\ pc' = st.pc
    /\ req' = body
    /\ results' = <<>>
    /\ i' = 1
    /\ runs' = runs + 1
    /\ UNCHANGED <<variant, book, nextId, file, addresses, unique, abExisting,
                   existingSig, counts, skipped, errors, recLog, rerun, lastCreate, mdIn,
                   mdOut, mergedList, validated, existingSigToId, valLog, bookVars,
                   keyVars, cart, createdList, skippedDuplicates, existingKeys, inflight,
                   issued>>

\* one iteration of the loop over lines: a line of quantity 0 is passed
\* over; the item is posted; the price warning is recorded and the loop
\* goes on; any other error leaves the loop for the catch of the route
AddToCartLine(o) ==
    /\ pc = "cloop"
    /\ i <= Len(req.lines)
    /\ faults + (IF IsFault(o) THEN 1 ELSE 0) <= MaxFaults
    /\ LET row == req.lines[i]
           qty == parseIntOr0(row)
           payload ==
               [ProductId |-> "productId", ShipTo |-> Get(row, "addressId"),
                ShippingMethod |-> req.shippingMethod,
                Quantities |-> <<qty>> \o req.otherQuantities,
                Options |-> req.pricingOptions, ItemName |-> STR_Distribution,
                Notes |-> Get(row, "label")]
           entry1(status) ==
               [addressId |-> Get(row, "addressId"), qty |-> qty, status |-> status,
                ok |-> TRUE]
           posted(r) ==
               IF ~r.threw
               THEN [w |-> r.w, results |-> Append(results, entry1(r.value.status)),
                     resp |-> resp, pc |-> pc]
               ELSE IF isPriceWarning(r.err)
               THEN [w |-> r.w,
                     results |-> Append(results,
                         entry1(400) @@ [warning |-> r.err.response.Message]),
                     resp |-> resp, pc |-> pc]
               ELSE [w |-> r.w, results |-> results, resp |-> requestError(r.err),
                     pc |-> "done"]
       IN  IF qty = 0
           THEN /\ o = "ok"
                /\ UNCHANGED <<calls, faults, cart, results, resp, pc>>
           ELSE \E st \in {posted(postCartItem(CartWorld, i, payload, o))} :
                   /\ calls' = st.w.calls
                   /\ faults' = st.w.faults
                   /\ cart' = st.w.cart
                   /\ results' = st.results
                   /\ resp' = st.resp
                   /\ pc' = st.pc
    /\ i' = i + 1
    /\ UNCHANGED <<variant, book, nextId, file, addresses, unique, abExisting,
                   existingSig, counts, skipped, errors, recLog, runs, rerun, lastCreate,
                   mdIn, mdOut, validateVars, bookVars, keyVars, createdList,
                   skippedDuplicates, existingKeys, inflight, issued>>

\* the loop is over: res.json({ ok: true, cartId, added, warnings, results })
AddToCartRespond ==
    /\ pc = "cloop"
    /\ i > Len(req.lines)
    /\ resp' = [kind |-> "cart", status |-> 200, ok |-> TRUE, cartId |-> "cartId",
                added |-> Cardinality({k \in 1..Len(results) : results[k].ok}),
                warnings |-> Cardinality({k \in 1..Len(results) :
                                             "warning" \in DOMAIN results[k]}),
                results |-> results]
    /\ pc' = "done"
    /\ UNCHANGED <<variant, book, nextId, file, addresses, unique, i, abExisting,
                   existingSig, counts, skipped, errors, calls, recLog, runs, faults,
                   rerun, lastCreate, mdIn, mdOut, validateVars, bookVars, keyVars,
                   otherVars>>

InitCart == Init /\ variant # "part_000"

NextCart ==
    \/ \E body \in CartBodies, sc \in StartScenarios, oProduct \in Outcomes :
          AddToCartStart(body, sc, oProduct)
    \/ \E o \in Outcomes \cup {"warning", "rejected"} : AddToCartLine(o)
    \/ AddToCartRespond

SpecCart == InitCart /\ [][NextCart]_vars

(***************************************************************************)
(* POST /addressbook/import (server.js only): a JSON list of records.      *)
(***************************************************************************)
\* keyOf(a): Address1|Postal|City|Business, each trimmed and lower-cased
keyOf(a) ==
    join4(toLowerCase(trim(Get(a, "Address1"))), toLowerCase(trim(Get(a, "Postal"))),
          toLowerCase(trim(Get(a, "City"))), toLowerCase(trim(Get(a, "Business"))))

\* request bodies: every list of at most MaxRows records with a good email
\* and domain, and one list with the email or the domain missing
ImportBodies ==
    LET recordPool ==
            { \* the address and organisation of E1, no identifier
              [Address1 |-> <<"1", " ", "R">>, Postal |-> <<"7", "5">>,
               City |-> <<"P", "a">>, Business |-> <<"A", "C", "M", "E">>],
              \* entry 1 named by its identifier, address unchanged
              [AddressId |-> idStr(1), Address1 |-> <<"1", " ", "R">>,
               Postal |-> <<"7", "5">>, City |-> <<"P", "a">>, Business |-> <<"Acme">>],
              \* entry 1 named by its identifier, moved to another street
              [AddressId |-> idStr(1), Address1 |-> <<"3", " ", "r">>,
               Postal |-> <<"6", "9">>, City |-> <<"l", "y">>, Business |-> <<"Acme">>],
              \* a new place
              [Address1 |-> <<"3", " ", "r">>, Postal |-> <<"6", "9">>,
               City |-> <<"l", "y">>, Business |-> <<"B">>],
              \* a record without organisation
              [Address1 |-> <<"4", " ", "r">>, Postal |-> <<"6", "9">>,
               City |-> <<"l", "y">>] }
        oneRecord ==
            <<[Address1 |-> <<"3", " ", "r">>, Postal |-> <<"6", "9">>,
               City |-> <<"l", "y">>, Business |-> <<"B">>]>>
    IN  {[userEmail |-> UserEmail, siteDomain |-> ValidDomain, newAddresses |-> l] :
            l \in SeqsUpTo(recordPool, MaxRows)}
        \cup {[userEmail |-> e, siteDomain |-> d, newAddresses |-> oneRecord] :
                e \in {UserEmail, EmptyStr}, d \in {ValidDomain, EmptyStr}}

\* the handler up to the loop: the body is checked, then authentication,
\* user lookup and the address-book fetch the duplicate keys are taken from
ImportListStart(body, sc) ==
    /\ pc = "idle"
    /\ faults + nFaults(sc) <= MaxFaults
    /\ LET stop(w, r) == [w |-> w, resp |-> r, pc |-> "done", keys |-> {}]
           fetched(g) ==
               IF g.threw THEN stop(g.w, requestError(g.err))
               ELSE [w |-> g.w, resp |-> Null, pc |-> "jloop",
                     keys |-> {keyOf(allOf(g.value)[k]) : k \in 1..Len(allOf(g.value))}]
           user(u) ==
               IF u.threw THEN stop(u.w, requestError(u.err))
               ELSE fetched(getAddressBook(u.w, sc[3]))
           auth(a) ==
               IF a.threw THEN stop(a.w, requestError(a.err))
               ELSE user(getUserId(a.w, sc[2]))
           domain(w, sd) ==
               IF sd.threw THEN stop(w, requestError(sd.err))
               ELSE auth(authenticate(w, sc[1]))
           start(w) ==
               IF body.userEmail = EmptyStr THEN stop(w, badRequest("userEmail requis"))
               ELSE IF body.newAddresses = <<>>
               THEN stop(w, badRequest("newAddresses requis"))
               ELSE domain(w, assertSiteDomain(body.siteDomain))
       IN  \E st \in {start(FreshWorld)} :
              /\ st.w.calls = <<>> => nFaults(sc) = 0
              /\ calls' = st.w.calls
              /\ faults' = st.w.faults
              /\ resp' = st.resp
              /\ pc' = st.pc
              /\ existingKeys' = st.keys
    /\ req' = body
    /\ createdList' = <<>>
    /\ skippedDuplicates' = <<>>
    /\ recLog' = <<>>
    /\ abExisting' = book
    /\ i' = 1
    /\ runs' = runs + 1
    /\ UNCHANGED <<variant, book, nextId, file, addresses, unique, existingSig, counts,
                   skipped, errors, rerun, lastCreate, mdIn, mdOut, mergedList,
                   validated, existingSigToId, valLog, bookVars, keyVars, cart, results,
                   inflight, issued>>

\* one iteration of the loop over newAddresses: the record is normalised;
\* it is skipped when a required field is missing or its key is known;
\* else upsertAddress is called and its result pushed to created[].  An
\* error leaves the loop for the catch of the route.  sc: the outcomes of
\* the calls of upsertAddress
ImportListRecord(sc) ==
    /\ pc = "jloop"
    /\ i <= Len(req.newAddresses)
    /\ faults + nFaults(sc) <= MaxFaults
    /\ LET a == req.newAddresses[i]
           addr ==
               [k \in Fields |->
                   CASE k = "StateProvince" -> Or(trim(Get(a, k)), STR_NA)
                     [] k = "Country" -> toUpperCase(trim(Or(Get(a, k), STR_FR)))
                     [] OTHER -> trim(Get(a, k))]
           missing ==
               \E k \in {"Address1", "City", "Postal", "Country", "Business"} :
                   addr[k] = EmptyStr
           entry1(outcome, w, value) ==
               [index |-> i, addr |-> addr, outcome |-> outcome, known |-> existingKeys,
                calls |-> SubSeq(w.calls, Len(calls) + 1, Len(w.calls)),
                err |-> Null, value |-> value, bookAfter |-> w.book]
           passed(reason) ==
               /\ nFaults(sc) = 0
               /\ skippedDuplicates' = Append(skippedDuplicates,
                                              [reason |-> reason, addr |-> addr])
               /\ recLog' = Append(recLog, entry1(reason, World, Null))
               /\ UNCHANGED <<book, nextId, calls, faults, lastCreate, createdList,
                              existingKeys, resp, pc>>
           upserted(r) ==
               /\ book' = r.w.book
               /\ nextId' = r.w.nextId
               /\ calls' = r.w.calls
               /\ faults' = r.w.faults
               /\ lastCreate' = r.w.lastCreate
               /\ recLog' = Append(recLog,
                                   entry1(IF r.threw THEN "threw" ELSE "upserted", r.w,
                                          r.value))
               /\ IF r.threw
                  THEN /\ resp' = requestError(r.err)
                       /\ pc' = "done"
                       /\ UNCHANGED <<createdList, existingKeys>>
                  ELSE /\ createdList' = Append(createdList,
                                                [addr |-> addr, addressId |-> r.value])
                       /\ existingKeys' = existingKeys \cup {keyOf(addr)}
                       /\ UNCHANGED <<resp, pc>>
               /\ UNCHANGED skippedDuplicates
       IN  IF missing THEN passed("missing_required_fields")
           ELSE IF keyOf(addr) \in existingKeys THEN passed("duplicate")
           ELSE /\ addr.AddressId # EmptyStr => (sc[2] # "unlisted" /\ sc[3] = "ok")
                /\ upserted(upsertAddress(World, addr, sc[1], sc[2], sc[3]))
    /\ i' = i + 1
    /\ UNCHANGED <<variant, file, addresses, unique, abExisting, existingSig, counts,
                   skipped, errors, runs, rerun, mdIn, mdOut, validateVars, bookVars,
                   keyVars, cart, results, inflight, issued>>

\* the loop is over:
\* res.json({ ok: true, createdCount: created.length, created, skippedDuplicates })
ImportListRespond ==
    /\ pc = "jloop"
    /\ i > Len(req.newAddresses)
    /\ resp' = [kind |-> "imported", status |-> 200, ok |-> TRUE,
                createdCount |-> Len(createdList), created |-> createdList,
                skippedDuplicates |-> skippedDuplicates]
    /\ pc' = "done"
    /\ UNCHANGED <<variant, book, nextId, file, addresses, unique, i, abExisting,
                   existingSig, counts, skipped, errors, calls, recLog, runs, faults,
                   rerun, lastCreate, mdIn, mdOut, validateVars, bookVars, keyVars,
                   otherVars>>

InitList == Init /\ variant = "server.js"

NextList ==
    \/ \E body \in ImportBodies, sc \in StartScenarios : ImportListStart(body, sc)
    \/ \E sc \in RecordScenarios : ImportListRecord(sc)
    \/ ImportListRespond

SpecList == InitList /\ [][NextList]_vars

(***************************************************************************)
(* Concurrent requests.  Express serves each request with its own          *)
(* invocation of the handler; the invocations interleave at every await.   *)
(* Each of MaxRequests requests is an import-file of a one-row file; its   *)
(* locals (token, abExisting, preferred) are those of its invocation.      *)
(* The platform issues a new token at every authentication.                *)
(***************************************************************************)
Requests == 1..MaxRequests

\* a variant of authenticate's token that keeps the first token obtained in
\* a variable of the module and hands it to the later requests
tokenCached(r, log) ==
    IF \E k \in 1..Len(log) : log[k].op = "AUTH" /\ log[k].ok
    THEN log[CHOOSE k \in 1..Len(log) : log[k].op = "AUTH" /\ log[k].ok].issues
    ELSE [id |-> 1, to |-> r]

\* const token = await authenticate(): the Token of the answer to this
\* request's own POST of the credentials
tokenObtained(r, log) ==
    [id |-> Cardinality({k \in 1..Len(log) : log[k].op = "AUTH"}) + 1, to |-> r]

\* the one-row files of the concurrent requests: a row that names entry 1,
\* and a row without identifier
ConcurrentRows == {row \in RowPool : "Country" \notin DOMAIN row}

\* a request arrives (the requests are interchangeable: they are numbered in
\* the order of their arrival); its file is parsed before any upstream call
Arrive(r, row) ==
    /\ inflight[r].pc = "idle"
    /\ \A q \in Requests : q < r => inflight[q].pc # "idle"
    /\ inflight' = [inflight EXCEPT ![r] =
          IF parseCsvBuffer(<<row>>) = <<>>
          THEN [@ EXCEPT !.pc = "done", !.resp = badRequest("Aucune ligne valide")]
          ELSE [@ EXCEPT !.pc = "auth", !.addr = parseCsvBuffer(<<row>>)[1]]]
    /\ runs' = runs + 1
    /\ UNCHANGED <<variant, book, nextId, pc, file, addresses, unique, i, abExisting,
                   existingSig, counts, skipped, errors, resp, calls, recLog, faults,
                   rerun, lastCreate, mdIn, mdOut, validateVars, bookVars, keyVars, cart,
                   results, createdList, skippedDuplicates, existingKeys, issued>>

\* the upstream call request r is waiting on completes with outcome o, and
\* the handler runs up to its next await, or to its response
Await(r, o) ==
    /\ inflight[r].pc \in {"auth", "user", "snapshot", "template", "write", "refetch"}
    /\ faults + (IF IsFault(o) THEN 1 ELSE 0) <= MaxFaults
    /\ o = "unlisted" => inflight[r].pc = "write" /\ inflight[r].addr.AddressId = EmptyStr
    /\ LET s == inflight[r]
           payload == createPayload(upsertPayload(s.addr, s.preferred), s.preferred)
           call(w) ==
               CASE s.pc = "auth" -> authenticate(w, o)
                 [] s.pc = "user" -> getUserId(w, o)
                 [] s.pc = "write" /\ s.addr.AddressId # EmptyStr ->
                       putAddress(w, upsertPayload(s.addr, s.preferred), s.addr.AddressId, o)
                 [] s.pc = "write" -> postAddress(w, payload, o)
                 [] OTHER -> getAddressBook(w, o)
           \* res.json({ ok: errors.length === 0, ... })
           summary(ok) == [kind |-> "summary", status |-> 200, ok |-> ok]
           \* the position the handler reaches when the call has answered
           after(v) ==
               CASE s.pc = "auth" -> "user"
                 [] s.pc = "user" -> IF variant = "server.js" THEN "template" ELSE "snapshot"
                 [] s.pc = "snapshot" ->
                       IF skipsRecord(s.addr, signaturesOf(v)) THEN "done" ELSE "template"
                 [] s.pc = "template" -> "write"
                 [] s.pc = "write" /\ s.addr.AddressId = EmptyStr -> "refetch"
                 [] OTHER -> "done"
           \* the call as the platform sees it: who sent it, the bearer token
           \* it carried, the token or the address book it answered with
           tagged(c, x) ==
               c @@ [by |-> r,
                     token |-> IF s.pc = "auth" THEN Null ELSE s.token,
                     issues |-> IF s.pc = "auth" /\ o = "ok"
                                THEN tokenObtained(r, calls) ELSE Null,
                     returned |-> IF c.op = "GET" /\ ~x.threw THEN x.value ELSE Null]
           done(x) ==
               /\ book' = x.w.book
               /\ nextId' = x.w.nextId
               /\ faults' = x.w.faults
               /\ calls' = Append(calls, tagged(x.w.calls[Len(x.w.calls)], x))
               /\ issued' = issued + (IF s.pc = "auth" /\ o = "ok" THEN 1 ELSE 0)
               /\ inflight' = [inflight EXCEPT ![r] =
                     IF x.threw
                     THEN [@ EXCEPT
                             !.pc = "done", !.err = x.err,
                             !.resp = IF s.pc \in {"auth", "user", "snapshot"}
                                      THEN requestError(x.err) ELSE summary(FALSE)]
                     ELSE [@ EXCEPT
                             !.pc = after(x.value),
                             !.token = IF s.pc = "auth"
                                       THEN tokenObtained(r, calls) ELSE @,
                             !.abExisting = IF s.pc = "snapshot"
                                            THEN [by |-> r, at |-> Len(calls) + 1,
                                                  ab |-> x.value]
                                            ELSE @,
                             !.preferred = IF s.pc = "template"
                                           THEN x.value.PreferredAddress ELSE @,
                             !.wrote = @ \/ s.pc = "write",
                             !.resp = IF after(x.value) = "done"
                                      THEN summary(TRUE) ELSE @]]
       IN  done(call(World))
    /\ UNCHANGED <<variant, pc, file, addresses, unique, i, abExisting, existingSig,
                   counts, skipped, errors, resp, recLog, runs, rerun, lastCreate, mdIn,
                   mdOut, validateVars, bookVars, keyVars, cart, results, createdList,
                   skippedDuplicates, existingKeys>>

InitConcurrent ==
    /\ variant \in Variants
    /\ book \in InitBooks
    /\ nextId = firstFreeId(book)
    /\ pc = "idle"
    /\ file = <<>>
    /\ addresses = <<>>
    /\ unique = <<>>
    /\ i = 1
    /\ abExisting = book
    /\ existingSig = {}
    /\ counts = NoCounts
    /\ skipped = <<>>
    /\ errors = <<>>
    /\ resp = Null
    /\ calls = <<>>
    /\ recLog = <<>>
    /\ runs = 0
    /\ faults = 0
    /\ rerun = FALSE
    /\ lastCreate = NoCreate
    /\ mdIn = <<>>
    /\ mdOut = <<>>
    /\ req = Null
    /\ mergedList = <<>>
    /\ validated = <<>>
    /\ existingSigToId = <<>>
    /\ valLog = <<>>
    /\ listed = Null
    /\ exported = Null
    /\ keyIn = <<>>
    /\ keyOut = <<>>
    /\ cart = <<>>
    /\ results = <<>>
    /\ createdList = <<>>
    /\ skippedDuplicates = <<>>
    /\ existingKeys = {}
    /\ inflight = [r \in Requests |->
                     [pc |-> "idle", addr |-> Null, token |-> Null, abExisting |-> Null,
                      preferred |-> Null, wrote |-> FALSE, err |-> Null, resp |-> Null]]
    /\ issued = 0

NextConcurrent ==
    \/ \E r \in Requests, row \in ConcurrentRows : Arrive(r, row)
    \/ \E r \in Requests, o \in {"ok", "http", "unlisted"} : Await(r, o)

SpecConcurrent == InitConcurrent /\ [][NextConcurrent]_vars

(***************************************************************************)
(* The notions the properties are stated in.                               *)
(***************************************************************************)
\* Identity Key: street line 1, postal code, city and country, lower-cased,
\* trimmed, whitespace collapsed, apostrophes unified; organisation ignored
IdentityKey(a) ==
    join4(normPart001(Get(a, "Address1")), normPart001(Get(a, "Postal")),
          normPart001(Get(a, "City")), normPart001(Get(a, "Country")))

Summarised == pc = "done" /\ resp # Null /\ resp.kind = "summary"

NoIds == \A k \in 1..Len(addresses) : addresses[k].AddressId = EmptyStr

Posts == {k \in 1..Len(calls) : calls[k].op = "POST"}

CountOutcome(o) == Cardinality({k \in 1..Len(recLog) : recLog[k].outcome = o})

BookKeys(ab) == {IdentityKey(allOf(ab)[k]) : k \in 1..Len(allOf(ab))}

(***************************************************************************)
(* C1.  Idempotence of import-file: when the same file is uploaded again   *)
(* after a run, no record carries an AddressId and no upstream call        *)
(* failed, the second run issues no upstream create: createdCount is 0 and *)
(* every deduplicated record is reported as skipped.                       *)
(***************************************************************************)
C1_SecondRunCreatesNothing ==
    (Summarised /\ rerun /\ NoIds /\ faults = 0) =>
        /\ resp.createdCount = 0
        /\ Posts = {}
        /\ "skippedCount" \in DOMAIN resp
        /\ resp.skippedCount = resp.totalImported

\* the same statement for the versions that test existingSig in the loop
C1_HoldsWithSkip ==
    variant # "server.js" => C1_SecondRunCreatesNothing

(***************************************************************************)
(* C2.  Duplicates inside the file: two parsed rows without AddressId and  *)
(* with equal Identity Keys collapse into one record of unique, so         *)
(* totalImported < totalParsed and at most one create is issued for their  *)
(* key; the two-row example (the same address in two cases) against an     *)
(* empty book gives totalParsed 2, totalImported 1, createdCount 1,        *)
(* skippedCount 0, errorCount 0.                                           *)
(***************************************************************************)
SameKeyRows ==
    {p \in (1..Len(addresses)) \X (1..Len(addresses)) :
        /\ p[1] < p[2]
        /\ addresses[p[1]].AddressId = EmptyStr
        /\ addresses[p[2]].AddressId = EmptyStr
        /\ IdentityKey(addresses[p[1]]) = IdentityKey(addresses[p[2]])}

UniqueWithKey(key) ==
    {k \in 1..Len(unique) :
        unique[k].AddressId = EmptyStr /\ IdentityKey(unique[k]) = key}

PostsWithKey(key) == {k \in Posts : IdentityKey(calls[k].payload) = key}

ExampleFile ==
    << [Address1 |-> <<"1", " ", "R">>, Postal |-> <<"7", "5">>, City |-> <<"P", "a">>,
        Country |-> <<"F", "R">>],
       [Address1 |-> <<" ", "1", " ", " ", "r">>, Postal |-> <<"7", "5">>,
        City |-> <<"P", "A">>, Country |-> <<"f", "r">>] >>

C2_FileDuplicatesCollapse ==
    Summarised =>
        /\ \A p \in SameKeyRows :
              /\ Cardinality(UniqueWithKey(IdentityKey(addresses[p[1]]))) = 1
              /\ resp.totalImported < resp.totalParsed
              /\ Cardinality(PostsWithKey(IdentityKey(addresses[p[1]]))) <= 1
        /\ (file = ExampleFile /\ allOf(abExisting) = <<>> /\ faults = 0) =>
              /\ resp.totalParsed = 2
              /\ resp.totalImported = 1
              /\ resp.createdCount = 1
              /\ "skippedCount" \in DOMAIN resp
              /\ resp.skippedCount = 0
              /\ resp.errorCount = 0

\* the same statement for the versions whose pre-pass key is sigNoBusiness
C2_HoldsWithoutBusiness ==
    variant # "server.js" => C2_FileDuplicatesCollapse

(***************************************************************************)
(* C3.  Within one import-file run no two upstream creates (POST) are      *)
(* issued for records with the same Identity Key.                          *)
(***************************************************************************)
C3_NoTwoCreatesForOneKey ==
    \A j, k \in Posts :
        j # k => IdentityKey(calls[j].payload) # IdentityKey(calls[k].payload)

C3_HoldsWithoutBusiness ==
    variant # "server.js" => C3_NoTwoCreatesForOneKey

(***************************************************************************)
(* C4.  A record without AddressId whose Identity Key is that of an entry  *)
(* of the address book fetched before the loop (preferred or additional)   *)
(* causes no upstream call, is counted in skippedCount and has one entry   *)
(* in skipped[]; a create is only issued for a key not yet known (in the   *)
(* snapshot or created earlier in the run).                                *)
(***************************************************************************)
KnownKeysBefore(k) ==
    BookKeys(abExisting) \cup
        {IdentityKey(recLog[j].addr) : j \in {m \in 1..(k - 1) : recLog[m].outcome = "created"}}

C4_BookDuplicateIsSkipped ==
    \A k \in 1..Len(recLog) :
        LET e == recLog[k]
        IN  /\ (e.addr.AddressId = EmptyStr /\ IdentityKey(e.addr) \in BookKeys(abExisting)) =>
                  /\ e.calls = <<>>
                  /\ e.outcome = "skipped"
                  /\ Cardinality({m \in 1..Len(skipped) : skipped[m].index = e.index}) = 1
                  /\ counts.skippedCount = Len(skipped)
            /\ \A c \in 1..Len(e.calls) :
                  e.calls[c].op = "POST" =>
                      IdentityKey(e.calls[c].payload) \notin KnownKeysBefore(k)

C4_HoldsWithSkip ==
    variant # "server.js" => C4_BookDuplicateIsSkipped

(***************************************************************************)
(* C5.  Records that carry an AddressId.                                   *)
(* As claimed: every such record results in exactly one PUT addressed to   *)
(* its AddressId and in no create, and is counted in updatedCount.         *)
(***************************************************************************)
PutsOf(e) == {c \in 1..Len(e.calls) : e.calls[c].op = "PUT"}

PostsOf(e) == {c \in 1..Len(e.calls) : e.calls[c].op = "POST"}

AllCallsOk(e) == \A c \in 1..Len(e.calls) : e.calls[c].ok

C5_IdAlwaysUpdated ==
    \A k \in 1..Len(recLog) :
        LET e == recLog[k]
        IN  e.addr.AddressId # EmptyStr =>
                /\ Cardinality(PutsOf(e)) = 1
                /\ \A c \in PutsOf(e) : e.calls[c].addressId = e.addr.AddressId
                /\ PostsOf(e) = {}
                /\ e.outcome = "updated"

(***************************************************************************)
(* C5 as amended: a record that carries an AddressId never causes a create *)
(* and is never skipped or counted as created, whether or not its Identity *)
(* Key is in the address book; it causes at most one PUT, addressed to its *)
(* AddressId; when the template fetch and the PUT succeed there is exactly *)
(* one PUT and the record is counted in updatedCount, otherwise it is      *)
(* recorded in errors[].  updatedCount counts exactly those records.       *)
(***************************************************************************)
C5_IdUpdatedUnlessUpstreamFails ==
    /\ \A k \in 1..Len(recLog) :
          LET e == recLog[k]
          IN  e.addr.AddressId # EmptyStr =>
                  /\ PostsOf(e) = {}
                  /\ Cardinality(PutsOf(e)) <= 1
                  /\ \A c \in PutsOf(e) : e.calls[c].addressId = e.addr.AddressId
                  /\ e.outcome \in {"updated", "error"}
                  /\ e.outcome = "updated" <=> (AllCallsOk(e) /\ Cardinality(PutsOf(e)) = 1)
                  /\ e.outcome = "error" =>
                        \E m \in 1..Len(errors) : errors[m].index = e.index
    /\ counts.updatedCount =
          Cardinality({k \in 1..Len(recLog) :
              recLog[k].addr.AddressId # EmptyStr /\ recLog[k].outcome = "updated"})

\* a record with an AddressId whose Identity Key is in the address book has
\* been updated by a version that skips duplicates of the book
C5_Witness ==
    /\ variant # "server.js"
    /\ \E k \in 1..Len(recLog) :
          /\ recLog[k].addr.AddressId # EmptyStr
          /\ IdentityKey(recLog[k].addr) \in BookKeys(abExisting)
          /\ recLog[k].outcome = "updated"

(***************************************************************************)
(* C6.  A create whose identifier cannot be resolved: the POST succeeded   *)
(* and the re-fetched address book holds no entry with the payload's key.  *)
(* As claimed: the record is reported as an error (in errors[], not in     *)
(* createdCount) and the loop continues.                                   *)
(***************************************************************************)
Unresolved(e) ==
    /\ PostsOf(e) # {}
    /\ AllCallsOk(e)
    /\ e.calls[Len(e.calls)].op = "GET"
    /\ \A c \in PostsOf(e) : IdentityKey(e.calls[c].payload) \notin BookKeys(e.bookAfter)

FirstWithKey(all, key) ==
    LET hits == {k \in 1..Len(all) : IdentityKey(all[k]) = key}
    IN  IF hits = {} THEN EmptyStr
        ELSE all[CHOOSE k \in hits : \A m \in hits : k <= m].AddressId

C7_CreateResolvesByIdentityKey ==
    lastCreate.payload # Null =>
        /\ ~lastCreate.posted => ~lastCreate.refetched
        /\ lastCreate.refetched =>
              lastCreate.result = FirstWithKey(lastCreate.all, IdentityKey(lastCreate.payload))

C7_HoldsWithoutBusiness ==
    variant # "server.js" => C7_CreateResolvesByIdentityKey

(***************************************************************************)
(* C8.  An upstream failure (error status or timeout) while record i is    *)
(* processed is caught and recorded in errors[] with the upstream message  *)
(* and status; the records after i are still processed and the request is  *)
(* answered with the summary.                                              *)
(***************************************************************************)
FailedUpstream(e) == \E c \in 1..Len(e.calls) : ~e.calls[c].ok

ErrorsOf(idx) == {m \in 1..Len(errors) : errors[m].index = idx}

C8_RecordFailureIsContained ==
    /\ \A k \in 1..Len(recLog) :
          LET e == recLog[k]
          IN  /\ e.index = k
              /\ FailedUpstream(e) =>
                    /\ Cardinality(ErrorsOf(k)) = 1
                    /\ \A m \in ErrorsOf(k) :
                          /\ errors[m].address = <<e.addr.Address1, e.addr.Postal, e.addr.City>>
                          /\ IF e.err.response # Null
                             THEN /\ errors[m].message = e.err.response.Message
                                  /\ errors[m].status = e.err.response.status
                             ELSE /\ errors[m].message = e.err.message
                                  /\ errors[m].status = NoStatus
              /\ ~FailedUpstream(e) => ErrorsOf(k) = {}
    /\ recLog # <<>> => (pc = "loop" \/ Summarised)
    /\ pc = "loop" => Len(recLog) = i - 1
    /\ Summarised => (Len(recLog) = Len(unique) /\ resp.status = 200)

\* the first of two records failed upstream, the second was processed and
\* the summary was sent
C8_Witness ==
    /\ Summarised
    /\ Len(recLog) = 2
    /\ FailedUpstream(recLog[1])
    /\ recLog[2].outcome \in {"created", "updated"}

(***************************************************************************)
(* C9.  The summary has ok = TRUE exactly when no record produced an error *)
(* (errorCount = 0); skipped records, and a mix of created and skipped     *)
(* records, leave ok = TRUE.                                               *)
(***************************************************************************)
C9_OkIffNoError ==
    Summarised =>
        /\ resp.ok <=> (\A k \in 1..Len(recLog) : ~FailedUpstream(recLog[k]))
        /\ resp.ok <=> resp.errorCount = 0
        /\ resp.errorCount = CountOutcome("error")

\* a run that skipped one record and created another, and reports ok
C9_Witness ==
    /\ Summarised
    /\ resp.ok
    /\ CountOutcome("skipped") = 1
    /\ CountOutcome("created") = 1

(***************************************************************************)
(* C10.  mergeDuplicates merges all distribution lines that share an       *)
(* Identity Key (address, postal code, city, country) into exactly one     *)
(* output line whose quantity is the sum of their quantities; the lines    *)
(* (1 R, 75, Pa, qty 2) and (1  r, 75, PA, qty 3) give one line of qty 5.  *)
(* Stated for lists whose lines all carry a positive numeric qty.          *)
(***************************************************************************)
LineKey(l) ==
    join4(normPart001(Or(Get(l, "address"), Get(l, "Address1"))),
          normPart001(Or(Get(l, "zip"), Get(l, "Postal"))),
          normPart001(Or(Get(l, "city"), Get(l, "City"))),
          normPart001(Or(Or(Get(l, "country"), Get(l, "Country")), STR_FR)))

\* the quantity a line asks for: its numeric qty, else its numeric quantity
LineQty(l) ==
    IF "qty" \in DOMAIN l /\ IsNum(l.qty) /\ l.qty.num # 0 THEN l.qty.num
    ELSE IF "quantity" \in DOMAIN l /\ IsNum(l.quantity) THEN l.quantity.num
    ELSE 0

Complete(l) ==
    /\ trim(Or(Get(l, "address"), Get(l, "Address1"))) # EmptyStr
    /\ trim(Or(Get(l, "zip"), Get(l, "Postal"))) # EmptyStr
    /\ trim(Or(Get(l, "city"), Get(l, "City"))) # EmptyStr

Accepted(list) == {k \in 1..Len(list) : Complete(list[k]) /\ LineQty(list[k]) > 0}

RECURSIVE SumQty(_, _)
SumQty(list, ks) ==
    IF ks = {} THEN 0
    ELSE LET k == CHOOSE x \in ks : TRUE
         IN  LineQty(list[k]) + SumQty(list, ks \ {k})

Merged == pc = "merged"

AllPositive(list) ==
    \A k \in 1..Len(list) :
        "qty" \in DOMAIN list[k] /\ IsNum(list[k].qty) /\ list[k].qty.num > 0

C10_SameKeyLinesAreSummed ==
    (Merged /\ AllPositive(mdIn)) =>
        \A k \in Accepted(mdIn) :
            LET key == LineKey(mdIn[k])
                outs == {m \in 1..Len(mdOut) : LineKey(mdOut[m]) = key}
            IN  /\ Cardinality(outs) = 1
                /\ \A m \in outs :
                      mdOut[m].qty =
                          SumQty(mdIn, {j \in Accepted(mdIn) : LineKey(mdIn[j]) = key})

C10_HoldsWithCountryInKey ==
    variant # "server.js" => C10_SameKeyLinesAreSummed

(***************************************************************************)
(* C11.  A distribution line whose quantity is zero, negative, missing or  *)
(* non-numeric is discarded by mergeDuplicates: no output line carries the *)
(* address of such lines only, and the output is the one the list gives    *)
(* with those lines taken out, so they add nothing to any quantity.        *)
(***************************************************************************)
HasQuantity(l) == LineQty(l) > 0

Discardable(list) == {k \in 1..Len(list) : ~HasQuantity(list[k])}

C11_NonPositiveQtyIsDiscarded ==
    Merged =>
        /\ \A m \in 1..Len(mdOut) :
              \E k \in 1..Len(mdIn) :
                  /\ HasQuantity(mdIn[k])
                  /\ norm(Get(mdIn[k], "address")) = norm(Get(mdOut[m], "address"))
                  /\ norm(Get(mdIn[k], "zip")) = norm(Get(mdOut[m], "zip"))
                  /\ norm(Get(mdIn[k], "city")) = norm(Get(mdOut[m], "city"))
        /\ mdOut = mergeDuplicates(SelectSeq(mdIn, HasQuantity))

C11_HoldsWithQtyTest ==
    variant # "part_000" => C11_NonPositiveQtyIsDiscarded

\* a list with a discardable line and a line that is kept
C11_Witness ==
    /\ Merged
    /\ variant # "part_000"
    /\ Discardable(mdIn) # {}
    /\ Len(mdOut) = 1

(***************************************************************************)
(* C12.  In /validate-addresses, when a merged line cannot be resolved to  *)
(* an address identifier (no match in the map and the create gives no      *)
(* identifier, or an upstream call fails), the request is answered with an *)
(* error and no validated list, not even a partial one; a success answer   *)
(* carries an addressId for every merged line.                             *)
(***************************************************************************)
ValidateDone == pc = "done" /\ req # Null

\* the line of a log entry got no identifier: a call made for it failed, or
\* no identifier came out of the lookup and the create
UnresolvedLine(e) ==
    \/ e.addressId = EmptyStr
    \/ \E k \in 1..Len(e.calls) : ~e.calls[k].ok

C12_ValidateIsAllOrNothing ==
    ValidateDone =>
        /\ (\E k \in 1..Len(valLog) : UnresolvedLine(valLog[k])) =>
              /\ resp.kind = "error"
              /\ resp.status >= 400
              /\ "validated" \notin DOMAIN resp
        /\ resp.kind = "validated" =>
              /\ Len(resp.validated) = Len(mergedList)
              /\ \A k \in 1..Len(mergedList) :
                    /\ resp.validated[k].addressId # EmptyStr
                    /\ \A f \in DOMAIN mergedList[k] :
                          resp.validated[k][f] = mergedList[k][f]

\* a request that failed on its second line, after the first was resolved
C12_Witness ==
    /\ ValidateDone
    /\ Len(valLog) = 2
    /\ ~UnresolvedLine(valLog[1])
    /\ UnresolvedLine(valLog[2])
    /\ resp.kind = "error"

(***************************************************************************)
(* C13.  In /validate-addresses, a merged line whose Identity Key matches  *)
(* an entry of the fetched address book, the preferred address included,   *)
(* is annotated with the identifier of such an entry, and no create is     *)
(* sent upstream for it.                                                   *)
(***************************************************************************)
\* identifiers of the entries of the snapshot that have the key of a line
SnapshotIds(row) ==
    {allOf(abExisting)[k].AddressId : k \in
        {j \in 1..Len(allOf(abExisting)) :
            /\ allOf(abExisting)[j].AddressId # EmptyStr
            /\ IdentityKey(allOf(abExisting)[j]) = LineKey(row)}}

C13_SnapshotMatchIsReused ==
    \A k \in 1..Len(valLog) :
        SnapshotIds(valLog[k].row) # {} =>
            /\ ~valLog[k].threw
            /\ valLog[k].addressId \in SnapshotIds(valLog[k].row)
            /\ \A c \in 1..Len(valLog[k].calls) : valLog[k].calls[c].op # "POST"

C13_HoldsWithPreferredInMap ==
    variant # "server.js" => C13_SnapshotMatchIsReused

\* a line that matches the preferred address only, and took its identifier
C13_Witness ==
    /\ variant # "server.js"
    /\ abExisting.PreferredAddress # Null
    /\ abExisting.Addresses = <<>>
    /\ \E k \in 1..Len(valLog) :
          /\ SnapshotIds(valLog[k].row) # {}
          /\ valLog[k].addressId = abExisting.PreferredAddress.AddressId

(***************************************************************************)
(* C14.  Every record the row extractor emits has a non-empty (after       *)
(* trimming) street line 1, city, postal code and country; a row whose     *)
(* street line 1, city or postal code is missing or blank is dropped       *)
(* without an error being raised, and totalParsed does not count it.       *)
(***************************************************************************)
BlankCell(row, h) == h \notin DOMAIN row \/ trim(row[h]) = EmptyStr

IncompleteRow(row) ==
    BlankCell(row, "Address1") \/ BlankCell(row, "City") \/ BlankCell(row, "Postal")

CompleteRows(rows) == {k \in 1..Len(rows) : ~IncompleteRow(rows[k])}

C14_IncompleteRowsAreDropped ==
    runs > 0 =>
        /\ \A k \in 1..Len(addresses) :
              /\ trim(addresses[k].Address1) # EmptyStr
              /\ trim(addresses[k].City) # EmptyStr
              /\ trim(addresses[k].Postal) # EmptyStr
              /\ trim(addresses[k].Country) # EmptyStr
        /\ Len(addresses) = Cardinality(CompleteRows(file))
        /\ \A k \in 1..Len(addresses) :
              \E j \in CompleteRows(file) :
                  addresses[k].Address1 = trim(file[j].Address1)
        /\ (CompleteRows(file) # {} /\ faults = 0) => (resp = Null \/ resp.kind = "summary")
        /\ Summarised => resp.totalParsed = Cardinality(CompleteRows(file))

\* a file of one complete and one incomplete row, imported to its summary
C14_Witness ==
    /\ Summarised
    /\ Len(file) = 2
    /\ Cardinality(CompleteRows(file)) = 1
    /\ resp.totalParsed = 1

(***************************************************************************)
(* C15.  For any address book, every address of the /addressbook/list      *)
(* output is in exactly one data row of the /addressbook/export.csv        *)
(* output, and among those rows the row of the preferred address, and only *)
(* that row, is flagged IsPreferred=true; also when the preferred address  *)
(* is repeated inside the additional addresses.                            *)
(***************************************************************************)
\* the text of a cell of the exported file: quotes taken off and undoubled
RECURSIVE Undoubled(_)
Undoubled(s) ==
    IF Len(s) <= 1 THEN <<>>
    ELSE IF Head(s) = "\"" THEN <<"\"">> \o Undoubled(Tail(Tail(s)))
    ELSE <<Head(s)>> \o Undoubled(Tail(s))

CellText(cell) ==
    IF cell # <<>> /\ Head(cell) = "\"" THEN Undoubled(Tail(cell)) ELSE cell

ListedAndExported ==
    /\ listed # Null
    /\ listed.kind = "list"
    /\ exported # Null
    /\ exported.kind = "csv"

RowsOf(id) == {k \in 1..Len(exported.rows) : CellText(exported.rows[k].AddressId) = id}

ListedIds == {listed.addresses[k].AddressId : k \in 1..Len(listed.addresses)}

C15_ListedAddressExportedOnce ==
    ListedAndExported =>
        /\ \A id \in ListedIds : Cardinality(RowsOf(id)) = 1
        /\ \A id \in ListedIds : \A k \in RowsOf(id) :
              (CellText(exported.rows[k].IsPreferred) = <<"true">>)
                  <=> (id = listed.preferredId)

C15_HoldsWithDedupe ==
    variant = "part_000" => C15_ListedAddressExportedOnce

\* the preferred address is also among the additional ones, and is exported
\* once
C15_Witness ==
    /\ ListedAndExported
    /\ variant = "part_000"
    /\ book.PreferredAddress # Null
    /\ \E k \in 1..Len(book.Addresses) : book.Addresses[k] = book.PreferredAddress
    /\ Cardinality(RowsOf(listed.preferredId)) = 1

(***************************************************************************)
(* C16.  The /addressbook/list output contains each AddressId of the       *)
(* fetched address book (preferred plus additional addresses) exactly      *)
(* once, the preferred entry first when it has an identifier, and          *)
(* preferredId is the identifier of the preferred address, or null (here   *)
(* the empty text) when there is no preferred address.                     *)
(***************************************************************************)
BookIds == {allOf(book)[k].AddressId : k \in 1..Len(allOf(book))} \ {EmptyStr}

C16_ListIsDeduplicated ==
    (listed # Null /\ listed.kind = "list") =>
        /\ ListedIds = BookIds
        /\ Len(listed.addresses) = Cardinality(BookIds)
        /\ \A k \in 1..Len(listed.addresses) :
              \E j \in 1..Len(allOf(book)) : listed.addresses[k] = allOf(book)[j]
        /\ (book.PreferredAddress # Null /\ book.PreferredAddress.AddressId # EmptyStr) =>
              /\ listed.addresses[1] = book.PreferredAddress
              /\ listed.preferredId = book.PreferredAddress.AddressId
        /\ book.PreferredAddress = Null => listed.preferredId = EmptyStr

\* a book in which an identifier occurs more than once, listed
C16_Witness ==
    /\ listed # Null
    /\ listed.kind = "list"
    /\ Len(allOf(book)) > Cardinality(BookIds)
    /\ Cardinality(BookIds) = 2
    /\ book.PreferredAddress # Null

(***************************************************************************)
(* C17.  Two address records that differ only in letter case or in leading *)
(* or trailing whitespace of street line 1, postal code, city or country   *)
(* have the same Identity Key; and the key is total: a field that is       *)
(* absent or null gives an empty fragment, never a failure.                *)
(***************************************************************************)
KeyFields == <<"Address1", "Postal", "City", "Country">>

SameText(x, y) == toLowerCase(trim(x)) = toLowerCase(trim(y))

SameUpToCaseAndMargins(a, b) ==
    \A k \in 1..4 : SameText(Get(a, KeyFields[k]), Get(b, KeyFields[k]))

\* the texts between the "|" of a key
RECURSIVE Fragments(_, _)
Fragments(key, cur) ==
    IF key = <<>> THEN <<cur>>
    ELSE IF Head(key) = "|" THEN <<cur>> \o Fragments(Tail(key), <<>>)
    ELSE Fragments(Tail(key), Append(cur, Head(key)))

Keyed == pc = "keyed"

C17_KeyIgnoresCaseAndMargins ==
    Keyed =>
        /\ SameUpToCaseAndMargins(keyIn[1], keyIn[2]) => keyOut[1] = keyOut[2]
        /\ \A n \in 1..2 :
              /\ Len(Fragments(keyOut[n], <<>>)) = 4
              /\ \A k \in 1..4 :
                    KeyFields[k] \notin DOMAIN keyIn[n] =>
                        Fragments(keyOut[n], <<>>)[k] = EmptyStr

\* two records without postal code whose street lines differ in case and
\* margins, and that get the same key
C17_Witness ==
    /\ Keyed
    /\ "Postal" \notin DOMAIN keyIn[1]
    /\ Get(keyIn[1], "Address1") # EmptyStr
    /\ Get(keyIn[1], "Address1") # Get(keyIn[2], "Address1")
    /\ SameUpToCaseAndMargins(keyIn[1], keyIn[2])
    /\ keyOut[1] = keyOut[2]

(***************************************************************************)
(* C18.  A request with a missing required input field or a malformed      *)
(* siteDomain is rejected with a client-error (4xx) response, and no       *)
(* upstream call, not even the authentication, is made for it.             *)
(***************************************************************************)
\* no domain, or a domain with whitespace or a slash in it
MalformedDomain(d) == trim(d) = EmptyStr \/ \E k \in 1..Len(d) : IsWs(d[k]) \/ d[k] = "/"

MissingField(body) == body.userEmail = EmptyStr \/ body.distributionList = <<>>

C18_InvalidRequestIsClientError ==
    (ValidateDone /\ (MissingField(req) \/ MalformedDomain(req.siteDomain))) =>
        /\ resp.kind = "error"
        /\ resp.status \in 400..499
        /\ calls = <<>>

\* what holds in the three versions: the request is rejected before any
\* upstream call; the status is 400 unless the domain is at fault
C18_InvalidRequestMakesNoCall ==
    (ValidateDone /\ (MissingField(req) \/ MalformedDomain(req.siteDomain))) =>
        /\ resp.kind = "error"
        /\ resp.status \in {400, 500}
        /\ resp.status = 500 <=>
              (req.userEmail # EmptyStr /\ MalformedDomain(req.siteDomain))
        /\ calls = <<>>
        /\ valLog = <<>>

\* a request with a good email and a malformed domain, rejected
C18_Witness ==
    /\ ValidateDone
    /\ req.userEmail # EmptyStr
    /\ req.siteDomain # EmptyStr
    /\ MalformedDomain(req.siteDomain)
    /\ resp.kind = "error"
    /\ calls = <<>>

(***************************************************************************)
(* C19.  A request-level upstream failure (during authentication, user     *)
(* lookup or the initial address-book fetch) aborts the request and is     *)
(* answered with the upstream HTTP status when one is known, else 500,     *)
(* with a JSON envelope that contains ok=false, error, status and          *)
(* upstream.                                                               *)
(***************************************************************************)
FailedCalls == {k \in 1..Len(calls) : ~calls[k].ok}

\* the request failed in a call made before the loop over the lines
FailedAtRequestLevel == ValidateDone /\ FailedCalls # {} /\ valLog = <<>>

C19_RequestFailureEnvelope ==
    FailedAtRequestLevel =>
        /\ resp.kind = "error"
        /\ \A k \in FailedCalls :
              resp.status = IF calls[k].outcome = "http" THEN 503 ELSE 500
        /\ {"ok", "error", "status", "upstream"} \subseteq DOMAIN resp
        /\ resp.ok = FALSE
        /\ mergedList = <<>>

C19_HoldsWithErrorMiddleware ==
    variant = "part_000" => C19_RequestFailureEnvelope

\* the user lookup was answered with an error status, which the response
\* repeats
C19_Witness ==
    /\ FailedAtRequestLevel
    /\ variant = "part_000"
    /\ Len(calls) = 2
    /\ calls[2].outcome = "http"
    /\ resp.status = 503

(***************************************************************************)
(* C20.  In import-file the address-book snapshot is fetched exactly once, *)
(* before the reconcile loop, and processing one record that is created    *)
(* makes exactly two upstream calls, the create POST followed by the       *)
(* re-fetch GET; no other address-book fetch is issued inside the loop.    *)
(***************************************************************************)
OpsOf(cs) == [k \in 1..Len(cs) |-> cs[k].op]

\* the calls of the request made before the first record was processed
RECURSIVE LoopCalls(_)
LoopCalls(log) ==
    IF log = <<>> THEN 0 ELSE Len(Head(log).calls) + LoopCalls(Tail(log))

CallsBeforeLoop == SubSeq(calls, 1, Len(calls) - LoopCalls(recLog))

InLoop == runs > 0 /\ (pc = "loop" \/ Summarised)

C20_OneSnapshotTwoCallsPerCreate ==
    InLoop =>
        /\ Cardinality({k \in 1..Len(CallsBeforeLoop) : CallsBeforeLoop[k].op = "GET"}) = 1
        /\ \A k \in 1..Len(recLog) :
              /\ recLog[k].outcome = "created" =>
                    OpsOf(recLog[k].calls) = <<"POST", "GET">>
              /\ \A c \in 1..Len(recLog[k].calls) :
                    recLog[k].calls[c].op = "GET" =>
                        (c > 1 /\ recLog[k].calls[c - 1].op = "POST")

\* what holds in the three versions: upsertAddress fetches the address book
\* once more for every record it writes
C20_ThreeCallsPerCreate ==
    InLoop =>
        /\ OpsOf(CallsBeforeLoop) =
              IF variant = "server.js" THEN <<"AUTH", "USER">> ELSE <<"AUTH", "USER", "GET">>
        /\ \A k \in 1..Len(recLog) :
              /\ recLog[k].outcome = "created" =>
                    OpsOf(recLog[k].calls) = <<"GET", "POST", "GET">>
              /\ recLog[k].outcome = "updated" =>
                    OpsOf(recLog[k].calls) = <<"GET", "PUT">>
              /\ recLog[k].outcome = "skipped" => recLog[k].calls = <<>>

\* a run with a snapshot in which a record was created
C20_Witness ==
    /\ Summarised
    /\ variant = "part_001"
    /\ CountOutcome("created") = 1
    /\ Len(calls) = 6

(***************************************************************************)
(* C26.  When import-file returns its summary, every record of the         *)
(* deduplicated list has been processed exactly once: createdCount +       *)
(* updatedCount + skippedCount + errorCount = totalImported <= totalParsed,*)
(* errorCount is the length of errors[], skippedCount the length of        *)
(* skipped[], and every index in skipped[] or errors[] is a distinct       *)
(* 1-based position in 1..totalImported.                                   *)
(***************************************************************************)
DiagnosticIndexes(r) ==
    [k \in 1..(Len(r.skipped) + Len(r.errors)) |->
        IF k <= Len(r.skipped) THEN r.skipped[k].index
        ELSE r.errors[k - Len(r.skipped)].index]

C26_SummaryCountsEveryRecordOnce ==
    Summarised =>
        /\ {"skippedCount", "skipped"} \subseteq DOMAIN resp
        /\ resp.createdCount + resp.updatedCount + resp.skippedCount + resp.errorCount
              = resp.totalImported
        /\ resp.totalImported = Len(unique)
        /\ resp.totalParsed = Len(addresses)
        /\ resp.totalImported <= resp.totalParsed
        /\ resp.errorCount = Len(resp.errors)
        /\ resp.skippedCount = Len(resp.skipped)
        /\ \A k \in 1..Len(DiagnosticIndexes(resp)) :
              /\ DiagnosticIndexes(resp)[k] \in 1..resp.totalImported
              /\ \A m \in 1..Len(DiagnosticIndexes(resp)) :
                    DiagnosticIndexes(resp)[k] = DiagnosticIndexes(resp)[m] => k = m
        /\ Len(recLog) = Len(unique)
        /\ \A k \in 1..Len(recLog) : recLog[k].index = k /\ recLog[k].addr = unique[k]

\* part_000 and part_001, whose summary carries skippedCount and skipped[]
C26_HoldsWithSkippedInSummary ==
    variant # "server.js" => C26_SummaryCountsEveryRecordOnce

\* a file of two records, of which one is skipped and one fails
C26_Witness ==
    /\ Summarised
    /\ variant = "part_001"
    /\ resp.totalParsed = 2
    /\ resp.totalImported = 2
    /\ resp.skippedCount = 1
    /\ resp.errorCount = 1

(***************************************************************************)
(* C25.  In the import-file loop no upstream call is retried: each record  *)
(* of the deduplicated list causes at most one mutating upstream call (one *)
(* create POST or one update PUT), and a record whose upstream call times  *)
(* out or fails is recorded as an error without a second attempt.          *)
(***************************************************************************)
MutatingCalls(e) == PutsOf(e) \cup PostsOf(e)

FailedCallsOf(e) == {c \in 1..Len(e.calls) : ~e.calls[c].ok}

C25_NoRetryInLoop ==
    \A k \in 1..Len(recLog) :
        /\ Cardinality(MutatingCalls(recLog[k])) <= 1
        \* the call that fails is the last call made for the record
        /\ FailedCallsOf(recLog[k]) \subseteq {Len(recLog[k].calls)}
        /\ FailedCallsOf(recLog[k]) # {} =>
              /\ recLog[k].outcome = "error"
              /\ Cardinality(ErrorsOf(k)) = 1
        \* the record is processed once
        /\ recLog[k].index = k
        /\ \A m \in 1..Len(recLog) : recLog[m].index = k => m = k

\* the PUT of the first record timed out and was not sent again; the next
\* record was created
C25_Witness ==
    /\ Summarised
    /\ Len(recLog) = 2
    /\ \E c \in PutsOf(recLog[1]) : recLog[1].calls[c].outcome = "timeout"
    /\ Len(recLog[1].calls) = 2
    /\ recLog[2].outcome = "created"
    /\ Len(errors) = 1

(***************************************************************************)
(* C27.  If the upstream address book holds no two entries with the same   *)
(* Identity Key before an import-file run, and no upstream call fails and  *)
(* no other request runs concurrently, then it holds no two entries with   *)
(* the same Identity Key after the run, also when the batch mixes records  *)
(* with an AddressId (updates that change an entry's address) and records  *)
(* without one.                                                            *)
(***************************************************************************)
\* no two entries of different identifiers share an Identity Key
DuplicateFree(ab) ==
    \A j, k \in 1..Len(allOf(ab)) :
        IdentityKey(allOf(ab)[j]) = IdentityKey(allOf(ab)[k]) =>
            allOf(ab)[j].AddressId = allOf(ab)[k].AddressId

EveryCallAnswered == \A k \in 1..Len(calls) : calls[k].outcome = "ok"

CleanRun == Summarised /\ runs = 1 /\ EveryCallAnswered /\ DuplicateFree(abExisting)

C27_RunKeepsBookDuplicateFree == CleanRun => DuplicateFree(book)

\* the same, for files in which no record carries an AddressId, in the two
\* versions that skip the duplicates of the address book
C27_HoldsWithoutIdentifiers ==
    (variant # "server.js" /\ NoIds) => C27_RunKeepsBookDuplicateFree

\* a clean run of part_001 that created an entry in a book that held others
C27_Witness ==
    /\ CleanRun
    /\ variant = "part_001"
    /\ NoIds
    /\ CountOutcome("created") = 1
    /\ Len(allOf(abExisting)) = 3

(***************************************************************************)
(* C28.  In a successful /validate-addresses response, the addressId       *)
(* attached to each merged line is the identifier of an address-book entry *)
(* whose Identity Key (street line 1, postal code, city, country) equals   *)
(* that line's key; a line is never mapped to an entry that differs from   *)
(* it in one of these four fields.                                         *)
(***************************************************************************)
ValidateSucceeded == ValidateDone /\ resp.kind = "validated"

\* the entries of the address book that carry the identifier id
EntriesWithId(id) == {k \in 1..Len(allOf(book)) : allOf(book)[k].AddressId = id}

C28_AddressIdNamesEntryOfSameKey ==
    ValidateSucceeded =>
        \A k \in 1..Len(resp.validated) :
            /\ EntriesWithId(resp.validated[k].addressId) # {}
            /\ \A e \in EntriesWithId(resp.validated[k].addressId) :
                  IdentityKey(allOf(book)[e]) = LineKey(resp.validated[k])

\* part_000 and part_001, whose lookup key holds the country
C28_HoldsWithCountryInKey ==
    variant # "server.js" => C28_AddressIdNamesEntryOfSameKey

\* two lines of the same street, postal code and city in two countries, one
\* found in the address book and one created
C28_Witness ==
    /\ ValidateSucceeded
    /\ variant = "part_001"
    /\ Len(resp.validated) = 2
    /\ valLog[1].created # valLog[2].created
    /\ resp.validated[1].address = resp.validated[2].address
    /\ resp.validated[1].country # resp.validated[2].country

(***************************************************************************)
(* C29.  In a successful /validate-addresses response, the validated list  *)
(* has exactly one entry per distinct Identity Key among the accepted      *)
(* input lines, in order of first occurrence, and the sum of its           *)
(* quantities equals the sum of the quantities of all accepted             *)
(* (positive-quantity, complete) input lines.                              *)
(***************************************************************************)
AcceptedLine(l) == Complete(l) /\ LineQty(l) > 0

\* the Identity Keys of a list, each once, in order of first occurrence
RECURSIVE DistinctKeys(_, _)
DistinctKeys(list, seen) ==
    IF list = <<>> THEN <<>>
    ELSE IF LineKey(Head(list)) \in seen THEN DistinctKeys(Tail(list), seen)
         ELSE <<LineKey(Head(list))>>
                  \o DistinctKeys(Tail(list), seen \cup {LineKey(Head(list))})

RECURSIVE TotalQty(_)
TotalQty(lines) == IF lines = <<>> THEN 0 ELSE Head(lines).qty + TotalQty(Tail(lines))

C29_ValidatedIsOnePerKeyWithAllQuantity ==
    ValidateSucceeded =>
        /\ [k \in 1..Len(resp.validated) |-> LineKey(resp.validated[k])]
              = DistinctKeys(SelectSeq(req.distributionList, AcceptedLine), {})
        /\ TotalQty(resp.validated)
              = SumQty(req.distributionList, Accepted(req.distributionList))

\* part_001, whose mergeDuplicates keys on the country and tests qty <= 0
C29_HoldsInPart001 ==
    variant = "part_001" => C29_ValidatedIsOnePerKeyWithAllQuantity

\* two accepted lines of one key and a discarded line: one validated line
\* that carries the sum
C29_Witness ==
    /\ ValidateSucceeded
    /\ variant = "part_001"
    /\ Len(req.distributionList) = 2
    /\ Len(resp.validated) = 1
    /\ resp.validated[1].qty = 5

(***************************************************************************)
(* C23.  In the payload of an upstream address update or create, every     *)
(* optional field (first name, last name, title, street lines 2 and 3,     *)
(* state, phone, email) that is absent from both the record and the        *)
(* preferred-address template is omitted from the payload rather than sent *)
(* as an empty string or a substitute value, while street line 1, city,    *)
(* postal code and country are always present.                             *)
(***************************************************************************)
OptionalFields ==
    {"FirstName", "LastName", "Title", "Address2", "Address3", "StateProvince",
     "Phone", "Email"}

RequiredFields == {"Address1", "City", "Postal", "Country"}

\* the preferred address upsertAddress read as template for record k
TemplateOf(k) ==
    IF k = 1 THEN abExisting.PreferredAddress ELSE recLog[k - 1].bookAfter.PreferredAddress

AbsentFrom(k, f) == Get(recLog[k].addr, f) = EmptyStr /\ TGet(TemplateOf(k), f) = EmptyStr

WritesOf(k) == PutsOf(recLog[k]) \cup PostsOf(recLog[k])

PayloadOmitsAbsent(fields) ==
    \A k \in 1..Len(recLog) : \A c \in WritesOf(k) :
        /\ \A f \in fields :
              AbsentFrom(k, f) => f \notin DOMAIN recLog[k].calls[c].payload
        /\ \A f \in RequiredFields :
              /\ f \in DOMAIN recLog[k].calls[c].payload
              /\ recLog[k].calls[c].payload[f] # EmptyStr
        /\ \A f \in DOMAIN recLog[k].calls[c].payload :
              f \in OptionalFields => recLog[k].calls[c].payload[f] # EmptyStr

C23_AbsentOptionalFieldsAreOmitted == PayloadOmitsAbsent(OptionalFields)

\* what the three versions do: the fields that have no default in
\* upsertAddress are omitted when absent
C23_HoldsForFieldsWithoutDefault ==
    PayloadOmitsAbsent({"Title", "Address2", "Address3", "Phone", "Email"})

\* an update and a create have been sent for records without a title, a
\* phone or an email, with a template that has none either
C23_Witness ==
    /\ Len(recLog) = 2
    /\ PutsOf(recLog[1]) # {}
    /\ PostsOf(recLog[2]) # {}
    /\ \A k \in 1..2 : AbsentFrom(k, "Title") /\ AbsentFrom(k, "Phone") /\ AbsentFrom(k, "Email")

(***************************************************************************)
(* C22.  /add-to-cart-distribution answers with one result entry per       *)
(* submitted line of non-zero quantity, each marked as success, warning or *)
(* failure; an upstream failure on one line is reported in that line's     *)
(* entry and does not prevent the other lines from being reported.         *)
(***************************************************************************)
ItemCalls == SelectSeq(calls, LAMBDA c : c.op = "ITEM")

NonZeroLines(lines) == {k \in 1..Len(lines) : parseIntOr0(lines[k]) # 0}

\* the loop over the lines of an add-to-cart request was entered and the
\* request has been answered
CartAnswered ==
    /\ pc = "done"
    /\ req # Null
    /\ "lines" \in DOMAIN req
    /\ \E k \in 1..Len(calls) : calls[k].op = "PRODUCT" /\ calls[k].ok

LineFailed == \E n \in 1..Len(ItemCalls) : ItemCalls[n].outcome \notin {"ok", "warning"}

C22_OneResultPerLine ==
    CartAnswered =>
        /\ "results" \in DOMAIN resp
        /\ Len(resp.results) = Cardinality(NonZeroLines(req.lines))
        /\ \A n \in 1..Len(ItemCalls) :
              \E m \in 1..Len(resp.results) :
                  /\ resp.results[m].addressId = ItemCalls[n].payload.ShipTo
                  /\ resp.results[m].ok = (ItemCalls[n].outcome \in {"ok", "warning"})
                  /\ ("warning" \in DOMAIN resp.results[m])
                        = (ItemCalls[n].outcome = "warning")

\* the same, for the requests in which no item was refused
C22_HoldsWhenNoLineFails == ~LineFailed => C22_OneResultPerLine

\* a request of two lines answered with one success and one warning
C22_Witness ==
    /\ CartAnswered
    /\ ~LineFailed
    /\ Len(resp.results) = 2
    /\ resp.added = 2
    /\ resp.warnings = 1

(***************************************************************************)
(* C30.  /add-to-cart-distribution posts cart items in input order, one    *)
(* per line of non-zero quantity; an upstream 400 carrying the message     *)
(* ReOrderFullSuccess_PriceWarning is recorded as ok with a warning and    *)
(* the loop continues, whereas any other upstream failure on line k aborts *)
(* the request with an error response, no item is posted for any line      *)
(* after k, and the items posted before k are not rolled back.             *)
(***************************************************************************)
InCartLoop == pc \in {"cloop", "done"} /\ req # Null /\ "lines" \in DOMAIN req

AcceptedItems == SelectSeq(ItemCalls, LAMBDA c : c.outcome \in {"ok", "warning"})

C30_ItemsInOrderAbortOnFailure ==
    InCartLoop =>
        \* one POST per line of non-zero quantity reached so far, in input order
        /\ {ItemCalls[n].line : n \in 1..Len(ItemCalls)}
              = {k \in NonZeroLines(req.lines) : k < i}
        /\ \A n, m \in 1..Len(ItemCalls) : n < m => ItemCalls[n].line < ItemCalls[m].line
        /\ \A n \in 1..Len(ItemCalls) :
              ItemCalls[n].payload.ShipTo = Get(req.lines[ItemCalls[n].line], "addressId")
        \* results[] holds the accepted items, the warned ones marked
        /\ Len(results) = Len(AcceptedItems)
        /\ \A n \in 1..Len(results) :
              /\ results[n].ok
              /\ results[n].addressId = AcceptedItems[n].payload.ShipTo
              /\ ("warning" \in DOMAIN results[n]) = (AcceptedItems[n].outcome = "warning")
        \* a warning does not end the loop; any other failure does, at once
        /\ ~LineFailed =>
              \/ pc = "cloop"
              \/ resp.kind = "cart" /\ resp.results = results /\ i = Len(req.lines) + 1
              \/ ItemCalls = <<>> /\ resp.kind = "error"
        /\ LineFailed =>
              /\ pc = "done"
              /\ resp.kind = "error"
              /\ resp.status >= 400
              /\ "results" \notin DOMAIN resp
              /\ ItemCalls[Len(ItemCalls)].outcome \notin {"ok", "warning"}
              /\ calls[Len(calls)] = ItemCalls[Len(ItemCalls)]
              /\ i = ItemCalls[Len(ItemCalls)].line + 1
              /\ Len(AcceptedItems) = Len(ItemCalls) - 1
        \* the cart holds every accepted item; nothing is taken out of it
        /\ cart = [n \in 1..Len(AcceptedItems) |-> AcceptedItems[n].payload]
        /\ \A k \in 1..Len(calls) :
              calls[k].op \in {"AUTH", "USER", "CART", "PRODUCT", "ITEM"}

\* the first line was posted, the second was refused and the request
\* answered with an error; the first item is in the cart
C30_Witness ==
    /\ InCartLoop
    /\ LineFailed
    /\ Len(ItemCalls) = 2
    /\ Len(cart) = 1
    /\ resp.kind = "error"

\* the first line drew the price warning and the second was posted
C30_WitnessWarning ==
    /\ InCartLoop
    /\ resp # Null
    /\ resp.kind = "cart"
    /\ Len(ItemCalls) = 2
    /\ ItemCalls[1].outcome = "warning"
    /\ ItemCalls[2].outcome = "ok"

(***************************************************************************)
(* C24.  In /addressbook/import (JSON list), every input record ends in    *)
(* exactly one of the created list or the skipped list, createdCount       *)
(* equals the number of upstream create (POST) calls issued, and a record  *)
(* carrying an AddressId is updated under that identifier rather than      *)
(* skipped as a duplicate or counted as created.                           *)
(***************************************************************************)
ListAnswered == pc = "done" /\ resp # Null /\ resp.kind = "imported"

InCreated(k) == recLog[k].outcome = "upserted"

InSkipped(k) == recLog[k].outcome \in {"duplicate", "missing_required_fields"}

CarriesId(k) == recLog[k].addr.AddressId # EmptyStr

C24_ImportListAccountsForRecords ==
    ListAnswered =>
        /\ Len(recLog) = Len(req.newAddresses)
        /\ \A k \in 1..Len(recLog) : InCreated(k) # InSkipped(k)
        /\ Len(resp.created) = Cardinality({k \in 1..Len(recLog) : InCreated(k)})
        /\ Len(resp.skippedDuplicates) = Cardinality({k \in 1..Len(recLog) : InSkipped(k)})
        /\ resp.createdCount = Cardinality(Posts)
        /\ \A k \in 1..Len(recLog) :
              (CarriesId(k) /\ recLog[k].outcome # "missing_required_fields") =>
                  /\ \E c \in PutsOf(recLog[k]) :
                        recLog[k].calls[c].addressId = recLog[k].addr.AddressId
                  /\ PostsOf(recLog[k]) = {}
                  /\ ~InSkipped(k)
                  /\ ~InCreated(k)

\* the same, for lists in which no record carries an AddressId
C24_HoldsWithoutIdentifiers ==
    (\A k \in 1..Len(recLog) : ~CarriesId(k)) => C24_ImportListAccountsForRecords

\* a list of two records without identifier: one created, one skipped as a
\* duplicate of the address book
C24_Witness ==
    /\ ListAnswered
    /\ \A k \in 1..Len(recLog) : ~CarriesId(k)
    /\ resp.createdCount = 1
    /\ Len(resp.skippedDuplicates) = 1
    /\ resp.skippedDuplicates[1].reason = "duplicate"

(***************************************************************************)
(* C21.  Every request that contacts the platform authenticates itself     *)
(* before any other upstream call of that request and uses only the token  *)
(* it obtained; no token and no address-book snapshot obtained by one      *)
(* request is used by another, under any interleaving of the requests.     *)
(***************************************************************************)
\* the positions in the log of the calls request r made
CallsBy(r) == {k \in 1..Len(calls) : calls[k].by = r}

\* the position of the authentication of request r that answered
AuthOf(r) == {k \in CallsBy(r) : calls[k].op = "AUTH" /\ calls[k].ok}

\* the position of the first address-book fetch of request r that answered
\* (part_000, part_001: the snapshot the skip test reads)
SnapshotOf(r) ==
    {k \in CallsBy(r) : /\ calls[k].op = "GET"
                        /\ calls[k].ok
                        /\ \A m \in CallsBy(r) : m < k => calls[m].op # "GET"}

\* C21: in every reachable state of every interleaving, the first call of a
\* request is its authentication; each later call of the request follows
\* that authentication and carries the token it issued, which no other
\* request was issued; and a request skips its record exactly when the
\* address book its own first fetch returned holds the record's signature.
C21_OwnTokenAndSnapshot ==
    \A r \in Requests :
        /\ \A k \in CallsBy(r) :
              \/ calls[k].op = "AUTH" /\ \A m \in CallsBy(r) : k <= m
              \/ /\ calls[k].op # "AUTH"
                 /\ \E a \in AuthOf(r) : a < k /\ calls[k].token = calls[a].issues
                 /\ \A q \in Requests \ {r} : \A a \in AuthOf(q) :
                       calls[k].token # calls[a].issues
        /\ inflight[r].abExisting # Null =>
              \E g \in SnapshotOf(r) :
                 /\ inflight[r].abExisting.ab = calls[g].returned
                 /\ inflight[r].pc \in {"template", "write", "refetch"} =>
                       ~skipsRecord(inflight[r].addr, signaturesOf(calls[g].returned))
                 /\ (inflight[r].pc = "done" /\ inflight[r].err = Null
                        /\ ~inflight[r].wrote) =>
                       skipsRecord(inflight[r].addr, signaturesOf(calls[g].returned))

\* two requests were served, their calls interleaved; the second fetched its
\* snapshot before the first created its entry, so it created the same place
\* again from its own snapshot, each under its own token
C21_Witness ==
    /\ variant # "server.js"
    /\ \A r \in Requests : inflight[r].pc = "done" /\ inflight[r].err = Null
                              /\ inflight[r].wrote
    /\ \E a \in AuthOf(1), b \in AuthOf(2) :
          /\ calls[a].issues # calls[b].issues
          /\ \E k \in CallsBy(1) : a < b /\ b < k
    /\ \E g1 \in SnapshotOf(1), g2 \in SnapshotOf(2), p \in CallsBy(1) :
          /\ calls[p].op = "POST"
          /\ g1 < g2
          /\ g2 < p
          /\ inflight[1].addr = inflight[2].addr

====
